---- MODULE Spec2Model ----
(***************************************************************************)
(* The d-world guild-state bridge (NNTin/d-cogs): the persisted Red config *)
(* (global OAuth2 credentials, per-guild flags), the process-local         *)
(* password cache of the dworld cog, and the handlers that read and write  *)
(* them.  Every handler is an asyncio coroutine: it runs atomically from   *)
(* one `await` to the next, so each action below is one such segment and   *)
(* the handlers of different tasks interleave at their awaits.             *)
(***************************************************************************)
EXTENDS Integers, Sequences, FiniteSets, TLC

\* ---------------------------------------------------------------- bounds
MaxGuilds == 2
MaxUsers == 2
MaxTasks == 2
MaxCalls == 2
MaxPathLen == 4

GuildIds == 1..MaxGuilds
UserIds == 1..MaxUsers
Slots == 1..MaxTasks

\* Python's None, and `ctx.guild` of a command sent in a direct message.
None == "None"
NoGuild == 0

\* Values a client id / client secret / static path can be set to.
ClientIdValues == {"A", "B"}
SecretValues == {"S"}
PathValues == {"/srv"}

VARIABLES
    client_id,              \* config.client_id (global, persisted)
    client_secret,          \* config.client_secret (global, persisted)
    static_file_path,       \* config.static_file_path (global, persisted)
    passworded,             \* config.guild(g).passworded (persisted)
    ignoreOfflineMembers,   \* config.guild(g).ignoreOfflineMembers (persisted)
    password_cache,         \* dworld._password_cache: dict guild.id -> bool
    guilds,                 \* bot.guilds, in enumeration order
    members,                \* guild.members of every guild, as user ids
    tasks,                  \* the running handler coroutines, one per slot
    load,                   \* the cog_load coroutine
    server_data,            \* the last snapshot _get_server_data returned
    expected,               \* history: passworded if every write were serialised
    calls,                  \* number of handler calls started so far
    members_config,         \* config.guild(g).members: dict user id -> settings
    handler                 \* the HotReloadHandler and the reload it scheduled

vars == <<client_id, client_secret, static_file_path, passworded,
          ignoreOfflineMembers, password_cache, guilds, members, tasks, load,
          server_data, expected, calls, members_config, handler>>

\* ------------------------------------------------------------- helpers
Range(s) == {s[i] : i \in DOMAIN s}

\* Python truthiness of an optional string: `not v`.
Falsy(v) == v = None \/ v = ""

\* `form.field.data or None`
OrNone(v) == IF Falsy(v) THEN None ELSE v

\* str(bool)
BoolStr(b) == IF b THEN "True" ELSE "False"

\* self._password_cache.get(guild.id, False)
CacheGet(cache, g) == IF g \in DOMAIN cache THEN cache[g] ELSE FALSE

\* self._password_cache[guild.id] = value
CachePut(cache, g, v) ==
    [x \in (DOMAIN cache) \cup {g} |-> IF x = g THEN v ELSE cache[x]]

\* A coroutine slot that runs nothing.
IdleTask ==
    [op |-> "idle", pc |-> "idle", guild |-> NoGuild, owner |-> FALSE,
     cid |-> None, sec |-> None, cur |-> FALSE, data |-> FALSE,
     uid |-> None, http |-> "none", api |-> None, exc |-> "none",
     ret |-> "none", msg |-> "none", wrote |-> FALSE,
     todo |-> <<>>, acc |-> <<>>, arg |-> None, seen |-> <<>>,
     users |-> <<>>, before |-> None, stored |-> <<>>, role |-> <<>>,
     color |-> <<>>, path |-> <<>>, root |-> None, rel |-> <<>>,
     old |-> None, failed |-> <<>>, seq |-> 0, bot |-> FALSE,
     channel |-> None, priv |-> FALSE, target |-> None, map |-> <<>>,
     entry |-> <<>>]

Free(t) == tasks[t].pc \in {"idle", "done"}

\* A handler call may start while the call budget lasts; it takes the first
\* free slot (which slot a coroutine sits in means nothing).
CanStart(t) ==
    /\ Free(t)
    /\ \A u \in Slots : u < t => ~Free(u)
    /\ calls < MaxCalls

SetTask(t, r) == tasks' = [tasks EXCEPT ![t] = r]

\* ------------------------------------------------- protection toggle
\* A credential check that lets a call through when only one value is missing.
CredentialsMissingBoth(cid, sec) == Falsy(cid) /\ Falsy(sec)

\* `if not client_id or not client_secret`
CredentialsMissing(cid, sec) == Falsy(cid) \/ Falsy(sec)

\* A toggle that writes back the state it read.
NewStateSame(current_state) == current_state

\* `new_state = not current_state`
NewState(current_state) == ~current_state

\* `status = "enabled" if new_state else "disabled"`
StatusWord(new_state) == IF new_state THEN "enabled" ELSE "disabled"

\* What a completed toggle hands back: ConfigManager.toggle_protection returns
\* (success, message); the dworld command sends the message and returns None.
ToggleReturn(op, success) ==
    IF op = "toggle_protection" THEN BoolStr(success) ELSE "None"

ToggleOps == {"toggleprotection", "toggle_protection"}

\* dworld.toggleprotection, up to its first await.
StartToggleCommand(t) ==
    /\ CanStart(t)
    /\ \E g \in Range(guilds) \cup {NoGuild} :
         SetTask(t,
           IF g = NoGuild
           THEN [IdleTask EXCEPT !.op = "toggleprotection", !.pc = "done",
                                 !.ret = "None", !.msg = "guild_only"]
           ELSE [IdleTask EXCEPT !.op = "toggleprotection", !.pc = "t_cid",
                                 !.guild = g])
    /\ calls' = calls + 1
    /\ UNCHANGED <<members_config, handler, client_id, client_secret,
                   static_file_path, passworded, ignoreOfflineMembers,
                   password_cache, guilds, members, load, server_data,
                   expected>>

\* ConfigManager.toggle_protection(guild), up to its first await.
StartToggleManager(t) ==
    /\ CanStart(t)
    /\ \E g \in Range(guilds) :
         SetTask(t, [IdleTask EXCEPT !.op = "toggle_protection",
                                     !.pc = "t_cid", !.guild = g])
    /\ calls' = calls + 1
    /\ UNCHANGED <<members_config, handler, client_id, client_secret,
                   static_file_path, passworded, ignoreOfflineMembers,
                   password_cache, guilds, members, load, server_data,
                   expected>>

\* `client_id = await self.config.client_id()`
ToggleReadClientId(t) ==
    /\ tasks[t].op \in ToggleOps /\ tasks[t].pc = "t_cid"
    /\ SetTask(t, [tasks[t] EXCEPT !.cid = client_id, !.pc = "t_sec"])
    /\ UNCHANGED <<members_config, handler, client_id, client_secret,
                   static_file_path, passworded, ignoreOfflineMembers,
                   password_cache, guilds, members, load, server_data,
                   expected, calls>>

\* `client_secret = await self.config.client_secret()` and the credential check.
ToggleReadClientSecret(t) ==
    /\ tasks[t].op \in ToggleOps /\ tasks[t].pc = "t_sec"
    /\ SetTask(t,
         IF CredentialsMissing(tasks[t].cid, client_secret)
         THEN [tasks[t] EXCEPT !.sec = client_secret, !.pc = "done",
                               !.ret = ToggleReturn(tasks[t].op, FALSE),
                               !.msg = "precondition"]
         ELSE [tasks[t] EXCEPT !.sec = client_secret, !.pc = "t_cur"])
    /\ UNCHANGED <<members_config, handler, client_id, client_secret,
                   static_file_path, passworded, ignoreOfflineMembers,
                   password_cache, guilds, members, load, server_data,
                   expected, calls>>

\* `current_state = await self.config.guild(guild).passworded()`
ToggleReadState(t) ==
    /\ tasks[t].op \in ToggleOps /\ tasks[t].pc = "t_cur"
    /\ SetTask(t, [tasks[t] EXCEPT !.cur = passworded[tasks[t].guild],
                                   !.data = NewState(passworded[tasks[t].guild]),
                                   !.pc = "t_set"])
    /\ UNCHANGED <<members_config, handler, client_id, client_secret,
                   static_file_path, passworded, ignoreOfflineMembers,
                   password_cache, guilds, members, load, server_data,
                   expected, calls>>

\* A cache update that overwrites the entry of every cached guild.
CacheAfterToggleAll(op, cache, g, new_state) ==
    IF op = "toggleprotection"
    THEN [x \in (DOMAIN cache) \cup {g} |-> new_state]
    ELSE cache

\* The cache after a toggle wrote new_state: only the dworld command updates it.
CacheAfterToggle(op, cache, g, new_state) ==
    IF op = "toggleprotection" THEN CachePut(cache, g, new_state) ELSE cache

\* `await self.config.guild(guild).passworded.set(new_state)`, the cache update
\* of the dworld command, and the confirmation.
ToggleWrite(t) ==
    /\ tasks[t].op \in ToggleOps /\ tasks[t].pc = "t_set"
    /\ LET g == tasks[t].guild
           new_state == tasks[t].data
       IN /\ passworded' = [passworded EXCEPT ![g] = new_state]
          /\ password_cache' =
                CacheAfterToggle(tasks[t].op, password_cache, g, new_state)
          /\ expected' = [expected EXCEPT ![g] = ~expected[g]]
          /\ SetTask(t, [tasks[t] EXCEPT !.pc = "done", !.wrote = TRUE,
                                         !.ret = ToggleReturn(tasks[t].op, TRUE),
                                         !.msg = StatusWord(new_state)])
    /\ UNCHANGED <<members_config, handler, client_id, client_secret,
                   static_file_path, ignoreOfflineMembers, guilds, members,
                   load, server_data, calls>>

\* ------------------------------------------- dashboard configuration page
\* `guild_form.passworded.data and (not client_id or not client_secret)`
DashRejects(passworded_data, cid, sec) ==
    passworded_data /\ CredentialsMissing(cid, sec)

\* A global-settings form that lets every submission through.
DashGlobalStageAnyone(r, submitted) ==
    IF submitted THEN [r EXCEPT !.pc = "d_set_cid"]
    ELSE [r EXCEPT !.pc = "done"]

\* The global-settings form of the page: only a bot owner's submission goes on
\* to the three config writes.
DashGlobalStage(r, submitted) ==
    IF submitted /\ r.owner THEN [r EXCEPT !.pc = "d_set_cid"]
    ELSE IF submitted THEN [r EXCEPT !.pc = "done", !.msg = "permission_denied"]
    ELSE [r EXCEPT !.pc = "done"]

\* The handler's locals that no later line reads are dropped once the forms
\* have been looked at.
DashAfterLoad(r) == [r EXCEPT !.cid = None, !.sec = None]

\* dashboard_guild_settings(user, guild), up to the read of the credentials:
\* the permission check, then the reads of passworded and ignoreOfflineMembers,
\* which only fill the page that is rendered.
StartDashboard(t) ==
    /\ CanStart(t)
    /\ \A u \in Slots : tasks[u].op = "dashboard" => tasks[u].pc = "done"
    /\ \E g \in Range(guilds), is_owner \in BOOLEAN, is_mod \in BOOLEAN :
         SetTask(t,
           IF ~is_owner /\ ~is_mod
           THEN [IdleTask EXCEPT !.op = "dashboard", !.pc = "done",
                                 !.guild = g, !.msg = "403"]
           ELSE [IdleTask EXCEPT !.op = "dashboard", !.pc = "d_cid",
                                 !.guild = g, !.owner = is_owner,
                                 !.priv = TRUE])
    /\ calls' = calls + 1
    /\ UNCHANGED <<members_config, handler, client_id, client_secret,
                   static_file_path, passworded, ignoreOfflineMembers,
                   password_cache, guilds, members, load, server_data,
                   expected>>

\* `client_id = await self.config.client_id()`
DashReadClientId(t) ==
    /\ tasks[t].op = "dashboard" /\ tasks[t].pc = "d_cid"
    /\ SetTask(t, [tasks[t] EXCEPT !.cid = client_id, !.pc = "d_sec"])
    /\ UNCHANGED <<members_config, handler, client_id, client_secret,
                   static_file_path, passworded, ignoreOfflineMembers,
                   password_cache, guilds, members, load, server_data,
                   expected, calls>>

\* `client_secret = await self.config.client_secret()`; the read of
\* static_file_path and `await self._get_accessible_guilds(user)` follow and
\* only fill the page.
DashReadClientSecret(t) ==
    /\ tasks[t].op = "dashboard" /\ tasks[t].pc = "d_sec"
    /\ SetTask(t, [tasks[t] EXCEPT !.sec = client_secret, !.pc = "d_guilds"])
    /\ UNCHANGED <<members_config, handler, client_id, client_secret,
                   static_file_path, passworded, ignoreOfflineMembers,
                   password_cache, guilds, members, load, server_data,
                   expected, calls>>

\* `await self._get_accessible_guilds(user)` returns, then the three forms are
\* looked at in turn up to the next config write: the guild selector (a switch
\* to another guild answers with a redirect), the guild form with its
\* credential check, the global form.
DashForms(t) ==
    /\ tasks[t].op = "dashboard" /\ tasks[t].pc = "d_guilds"
    /\ \E redirect \in BOOLEAN, guild_submitted \in BOOLEAN,
          passworded_data \in BOOLEAN, global_submitted \in BOOLEAN :
         SetTask(t, DashAfterLoad(
           IF redirect
           THEN [tasks[t] EXCEPT !.pc = "done", !.msg = "redirect"]
           ELSE IF guild_submitted
           THEN IF DashRejects(passworded_data, tasks[t].cid, tasks[t].sec)
                THEN DashGlobalStage([tasks[t] EXCEPT !.msg = "guild_error"],
                                     global_submitted)
                ELSE [tasks[t] EXCEPT !.pc = "d_set_passworded",
                                      !.data = passworded_data]
           ELSE DashGlobalStage(tasks[t], global_submitted)))
    /\ UNCHANGED <<members_config, handler, client_id, client_secret,
                   static_file_path, passworded, ignoreOfflineMembers,
                   password_cache, guilds, members, load, server_data,
                   expected, calls>>

\* `await config.passworded.set(guild_form.passworded.data)`
DashSetPassworded(t) ==
    /\ tasks[t].op = "dashboard" /\ tasks[t].pc = "d_set_passworded"
    /\ passworded' = [passworded EXCEPT ![tasks[t].guild] = tasks[t].data]
    /\ expected' = [expected EXCEPT ![tasks[t].guild] = tasks[t].data]
    /\ SetTask(t, [tasks[t] EXCEPT !.pc = "d_set_ignore", !.wrote = TRUE])
    /\ UNCHANGED <<members_config, handler, client_id, client_secret,
                   static_file_path, ignoreOfflineMembers, password_cache,
                   guilds, members, load, server_data, calls>>

\* `await config.ignoreOfflineMembers.set(guild_form.ignoreOfflineMembers.data)`,
\* the success message, then the global form.
DashSetIgnoreOffline(t) ==
    /\ tasks[t].op = "dashboard" /\ tasks[t].pc = "d_set_ignore"
    /\ \E ignore_data \in BOOLEAN, global_submitted \in BOOLEAN :
         /\ ignoreOfflineMembers' =
               [ignoreOfflineMembers EXCEPT ![tasks[t].guild] = ignore_data]
         /\ SetTask(t, DashGlobalStage([tasks[t] EXCEPT !.msg = "guild_saved"],
                                       global_submitted))
    /\ UNCHANGED <<members_config, handler, client_id, client_secret,
                   static_file_path, passworded, password_cache, guilds,
                   members, load, server_data, expected, calls>>

\* `await self.config.client_id.set(global_form.client_id.data or None)`
DashSetClientId(t) ==
    /\ tasks[t].op = "dashboard" /\ tasks[t].pc = "d_set_cid"
    /\ \E v \in ClientIdValues \cup {""} : client_id' = OrNone(v)
    /\ SetTask(t, [tasks[t] EXCEPT !.pc = "d_set_sec"])
    /\ UNCHANGED <<members_config, handler, client_secret, static_file_path,
                   passworded, ignoreOfflineMembers, password_cache, guilds,
                   members, load, server_data, expected, calls>>

\* `await self.config.client_secret.set(global_form.client_secret.data or None)`
DashSetClientSecret(t) ==
    /\ tasks[t].op = "dashboard" /\ tasks[t].pc = "d_set_sec"
    /\ \E v \in SecretValues \cup {""} : client_secret' = OrNone(v)
    /\ SetTask(t, [tasks[t] EXCEPT !.pc = "d_set_static"])
    /\ UNCHANGED <<members_config, handler, client_id, static_file_path,
                   passworded, ignoreOfflineMembers, password_cache, guilds,
                   members, load, server_data, expected, calls>>

\* `await self.config.static_file_path.set(... or None)` and the success message.
DashSetStaticPath(t) ==
    /\ tasks[t].op = "dashboard" /\ tasks[t].pc = "d_set_static"
    /\ \E v \in PathValues \cup {""} : static_file_path' = OrNone(v)
    /\ SetTask(t, [tasks[t] EXCEPT !.pc = "done", !.msg = "global_saved"])
    /\ UNCHANGED <<members_config, handler, client_id, client_secret,
                   passworded, ignoreOfflineMembers, password_cache, guilds,
                   members, load, server_data, expected, calls>>

\* ------------------------------------------------------ credential commands
\* dworld.setclientsecret: one config write (and a confirmation message).
SetClientSecret ==
    /\ calls < MaxCalls
    /\ \E v \in SecretValues : client_secret' = v
    /\ calls' = calls + 1
    /\ UNCHANGED <<members_config, handler, client_id, static_file_path,
                   passworded, ignoreOfflineMembers, password_cache, guilds,
                   members, tasks, load, server_data, expected>>

\* ------------------------------------------------------------ access gate
\* The bridge after start-up (construction and cog_load) over whatever
\* configuration earlier runs persisted: every served guild's flag is cached.
LoadedCache(flags, gs) == [g \in Range(gs) |-> flags[g]]

AllGuilds == [i \in 1..MaxGuilds |-> i]

\* cog_load before it has run, and after it has started the server.
LoadIdle == [pc |-> "init", todo |-> <<>>]

LoadDone == [pc |-> "done", todo |-> <<>>]

\* No snapshot has been asked for yet.  A snapshot is kept with the guild list
\* and the cache it was built from.
NoSnapshot ==
    [asked |-> FALSE, by |-> "none", guilds |-> <<>>, cache |-> <<>>,
     result |-> <<>>]

\* The registered default of config.guild(g).members.
DefaultMembers ==
    [g \in GuildIds |->
        ("user_id" :> [role_color |-> "#ffffff",
                       custom_message |-> <<"f", "o", "o">>])]

\* A HotReloadHandler after __init__: debounce is False and no reload has been
\* scheduled.  `reload` is the position of the reload_cogs coroutine, `cogs`
\* its cog_names, `reset` whether _reset is queued on the loop, `raised` the
\* exception the last call let through, `started` the reloads scheduled.
IdleHandler ==
    [debounce |-> FALSE, reload |-> "none", cogs |-> <<>>, reset |-> FALSE,
     raised |-> "none", event_type |-> "none", started |-> 0]

Init ==
    /\ client_id \in {None} \cup ClientIdValues
    /\ client_secret \in {None} \cup SecretValues
    /\ static_file_path = None
    /\ passworded \in [GuildIds -> BOOLEAN]
    /\ ignoreOfflineMembers = [g \in GuildIds |-> FALSE]
    /\ guilds = AllGuilds
    /\ password_cache = LoadedCache(passworded, guilds)
    /\ members = [g \in GuildIds |-> UserIds]
    /\ tasks = [t \in Slots |-> IdleTask]
    /\ load = LoadDone
    /\ server_data = NoSnapshot
    /\ expected = passworded
    /\ calls = 0
    /\ members_config = DefaultMembers
    /\ handler = IdleHandler

Next ==
    \/ \E t \in Slots : StartToggleCommand(t)
    \/ \E t \in Slots : StartToggleManager(t)
    \/ \E t \in Slots : ToggleReadClientId(t)
    \/ \E t \in Slots : ToggleReadClientSecret(t)
    \/ \E t \in Slots : ToggleReadState(t)
    \/ \E t \in Slots : ToggleWrite(t)
    \/ \E t \in Slots : StartDashboard(t)
    \/ \E t \in Slots : DashReadClientId(t)
    \/ \E t \in Slots : DashReadClientSecret(t)
    \/ \E t \in Slots : DashForms(t)
    \/ \E t \in Slots : DashSetPassworded(t)
    \/ \E t \in Slots : DashSetIgnoreOffline(t)
    \/ \E t \in Slots : DashSetClientId(t)
    \/ \E t \in Slots : DashSetClientSecret(t)
    \/ \E t \in Slots : DashSetStaticPath(t)
    \/ SetClientSecret

Spec == Init /\ [][Next]_vars

\* The protection toggles alone, with the secret being set at any moment.
NextToggle ==
    \/ \E t \in Slots : StartToggleCommand(t)
    \/ \E t \in Slots : StartToggleManager(t)
    \/ \E t \in Slots : ToggleReadClientId(t)
    \/ \E t \in Slots : ToggleReadClientSecret(t)
    \/ \E t \in Slots : ToggleReadState(t)
    \/ \E t \in Slots : ToggleWrite(t)
    \/ SetClientSecret

SpecToggle == Init /\ [][NextToggle]_vars

\* -------------------------------------------------------- token validator
\* int(s) of a decimal string: the ids of the model are the numbers whose
\* str() is the string; anything else raises ValueError.
IdNumbers == 0..(MaxGuilds + MaxUsers + 1)

IsNumeric(s) == \E n \in IdNumbers : ToString(n) = s

IntOf(s) == CHOOSE n \in IdNumbers : ToString(n) = s

\* user_info.get("id") as the caller sends it: absent, not a number, or an id.
ClaimedIds == {None, "x"} \cup {ToString(u) : u \in UserIds}

\* discord_server_id as the caller sends it: not a number, a served guild, or
\* the id of a guild the bot is not in.
ServerIds == {"x"} \cup {ToString(g) : g \in 1..(MaxGuilds + 1)}

\* What the identity provider does with GET /users/@me: answers 200, answers
\* another status, fails in transport, or never answers.
ProviderReplies == {"200", "401", "error", "silent"}

\* The "id" of the JSON body of a 200 answer (None: the body has no id).
ApiIds == {None, "x"} \cup {ToString(u) : u \in UserIds}

\* A validator whose handlers catch aiohttp.ClientError only: anything else
\* leaves the coroutine as an exception.
OnExceptionClientErrorOnly(r, e) ==
    IF e = "ClientError"
    THEN [r EXCEPT !.pc = "done", !.exc = e, !.ret = "False"]
    ELSE [r EXCEPT !.pc = "raised", !.exc = e]

\* `except aiohttp.ClientError` / `except Exception`: both return False.
OnException(r, e) == [r EXCEPT !.pc = "done", !.exc = e, !.ret = "False"]

\* `return False` / `return True`
Return(r, b) == [r EXCEPT !.pc = "done", !.ret = BoolStr(b)]

\* A session that never gives up on a provider that does not answer.
RequestCompletesNoTimeout(reply) == reply # "silent"

\* `aiohttp.ClientSession()` is built with aiohttp's default total timeout, so
\* `session.get` ends whatever the provider does: with the answer, with a
\* transport error, or with the timeout error.
RequestCompletes(reply) == reply \in ProviderReplies

\* A membership test that trusts every id the provider confirmed.
IsMemberAlways(g, uid) == TRUE

\* `guild.get_member(int(user_info["id"]))`
IsMember(g, uid) == IntOf(uid) \in members[g]

\* validate_discord_user(token, user_info, discord_server_id), up to its first
\* await: the user-info check and the guild lookup.  Validations write nothing
\* and share nothing, so one is followed at a time.
StartValidate(t) ==
    /\ CanStart(t)
    /\ \A u \in Slots : tasks[u].op = "validate" => tasks[u].pc = "done"
    /\ \E uid \in ClaimedIds, sid \in ServerIds :
         LET r == [IdleTask EXCEPT !.op = "validate", !.uid = uid]
         IN SetTask(t,
              IF Falsy(uid) THEN Return(r, FALSE)
              ELSE IF ~IsNumeric(sid) THEN OnException(r, "ValueError")
              ELSE IF IntOf(sid) \notin Range(guilds) THEN Return(r, FALSE)
              ELSE [r EXCEPT !.pc = "v_cid", !.guild = IntOf(sid)])
    /\ calls' = calls + 1
    /\ UNCHANGED <<members_config, handler, client_id, client_secret,
                   static_file_path, passworded, ignoreOfflineMembers,
                   password_cache, guilds, members, load, server_data,
                   expected>>

\* `client_id = await self.config.client_id()`
ValidateReadClientId(t) ==
    /\ tasks[t].op = "validate" /\ tasks[t].pc = "v_cid"
    /\ SetTask(t, [tasks[t] EXCEPT !.cid = client_id, !.pc = "v_sec"])
    /\ UNCHANGED <<members_config, handler, client_id, client_secret,
                   static_file_path, passworded, ignoreOfflineMembers,
                   password_cache, guilds, members, load, server_data,
                   expected, calls>>

\* `client_secret = await self.config.client_secret()`, the credential check,
\* and the request to the identity provider being sent.
ValidateReadClientSecret(t) ==
    /\ tasks[t].op = "validate" /\ tasks[t].pc = "v_sec"
    /\ \E reply \in ProviderReplies :
         SetTask(t,
           IF CredentialsMissing(tasks[t].cid, client_secret)
           THEN Return([tasks[t] EXCEPT !.sec = client_secret], FALSE)
           ELSE [tasks[t] EXCEPT !.sec = client_secret, !.http = reply,
                                 !.pc = "v_http"])
    /\ UNCHANGED <<members_config, handler, client_id, client_secret,
                   static_file_path, passworded, ignoreOfflineMembers,
                   password_cache, guilds, members, load, server_data,
                   expected, calls>>

\* `async with session.get(...) as resp` ends; `if resp.status != 200`.
ValidateRequest(t) ==
    /\ tasks[t].op = "validate" /\ tasks[t].pc = "v_http"
    /\ RequestCompletes(tasks[t].http)
    /\ SetTask(t,
         CASE tasks[t].http = "200" -> [tasks[t] EXCEPT !.pc = "v_json"]
           [] tasks[t].http = "401" -> Return(tasks[t], FALSE)
           [] tasks[t].http = "error" -> OnException(tasks[t], "ClientError")
           [] OTHER -> OnException(tasks[t], "TimeoutError"))
    /\ UNCHANGED <<members_config, handler, client_id, client_secret,
                   static_file_path, passworded, ignoreOfflineMembers,
                   password_cache, guilds, members, load, server_data,
                   expected, calls>>

\* `api_user_info = await resp.json()` and the comparison of the two ids.
ValidateBody(t) ==
    /\ tasks[t].op = "validate" /\ tasks[t].pc = "v_json"
    /\ \E malformed \in BOOLEAN, api \in ApiIds :
         SetTask(t,
           IF malformed THEN OnException(tasks[t], "JSONError")
           ELSE IF api # tasks[t].uid
           THEN Return([tasks[t] EXCEPT !.api = api], FALSE)
           ELSE [tasks[t] EXCEPT !.api = api, !.pc = "v_member"])
    /\ UNCHANGED <<members_config, handler, client_id, client_secret,
                   static_file_path, passworded, ignoreOfflineMembers,
                   password_cache, guilds, members, load, server_data,
                   expected, calls>>

\* The response and the session are closed, then
\* `user_id = int(user_info["id"])` and `member = guild.get_member(user_id)`.
ValidateMembership(t) ==
    /\ tasks[t].op = "validate" /\ tasks[t].pc = "v_member"
    /\ SetTask(t,
         IF ~IsNumeric(tasks[t].uid) THEN OnException(tasks[t], "ValueError")
         ELSE Return(tasks[t], IsMember(tasks[t].guild, tasks[t].uid)))
    /\ UNCHANGED <<members_config, handler, client_id, client_secret,
                   static_file_path, passworded, ignoreOfflineMembers,
                   password_cache, guilds, members, load, server_data,
                   expected, calls>>

\* The platform adds a member to a guild's member list.
MemberJoin ==
    /\ \E g \in Range(guilds), u \in UserIds :
         /\ u \notin members[g]
         /\ members' = [members EXCEPT ![g] = @ \cup {u}]
    /\ UNCHANGED <<members_config, handler, client_id, client_secret,
                   static_file_path, passworded, ignoreOfflineMembers,
                   password_cache, guilds, tasks, load, server_data, expected,
                   calls>>

\* The platform removes a member from a guild's member list.
MemberRemove ==
    /\ \E g \in Range(guilds), u \in UserIds :
         /\ u \in members[g]
         /\ members' = [members EXCEPT ![g] = @ \ {u}]
    /\ UNCHANGED <<members_config, handler, client_id, client_secret,
                   static_file_path, passworded, ignoreOfflineMembers,
                   password_cache, guilds, tasks, load, server_data, expected,
                   calls>>

\* The bridge of a fresh installation whose credentials may have been set.
InitValidate ==
    /\ client_id \in {None, "A"}
    /\ client_secret \in {None} \cup SecretValues
    /\ static_file_path = None
    /\ passworded = [g \in GuildIds |-> FALSE]
    /\ ignoreOfflineMembers = [g \in GuildIds |-> FALSE]
    /\ guilds = AllGuilds
    /\ password_cache = LoadedCache(passworded, guilds)
    /\ members = [g \in GuildIds |-> UserIds]
    /\ tasks = [t \in Slots |-> IdleTask]
    /\ load = LoadDone
    /\ server_data = NoSnapshot
    /\ expected = passworded
    /\ calls = 0
    /\ members_config = DefaultMembers
    /\ handler = IdleHandler

ValidateStep(t) ==
    \/ ValidateReadClientId(t)
    \/ ValidateReadClientSecret(t)
    \/ ValidateRequest(t)
    \/ ValidateBody(t)
    \/ ValidateMembership(t)

NextValidate ==
    \/ \E t \in Slots : StartValidate(t)
    \/ \E t \in Slots : ValidateReadClientId(t)
    \/ \E t \in Slots : ValidateReadClientSecret(t)
    \/ \E t \in Slots : ValidateRequest(t)
    \/ \E t \in Slots : ValidateBody(t)
    \/ \E t \in Slots : ValidateMembership(t)
    \/ MemberJoin
    \/ MemberRemove
    \/ SetClientSecret

SpecValidate == InitValidate /\ [][NextValidate]_vars

\* The event loop resumes every coroutine whose awaited call has ended.
SpecValidateLive ==
    SpecValidate /\ \A t \in Slots : WF_vars(ValidateStep(t))

\* ------------------------------------------------------ snapshot provider
\* A cache lookup that reports an unknown guild as protected.
CacheGetFailClosed(cache, g) == IF g \in DOMAIN cache THEN cache[g] ELSE TRUE

\* `passworded = self._password_cache.get(guild.id, False)` of _get_server_data
IsPassworded(cache, g) == CacheGet(cache, g)

\* An entry that reports every guild as unprotected.
ServerRecordUnprotected(g, flag) ==
    [key |-> ToString(g), default |-> FALSE, passworded |-> FALSE]

\* One entry of the snapshot, `server_data[str(guild.id)] = {...}`.  The name
\* and its first letter are copied from the guild and are not modelled.
ServerRecord(g, flag) ==
    [key |-> ToString(g), default |-> FALSE, passworded |-> flag]

\* The loop of _get_server_data: one record per guild, in the order of
\* bot.guilds (a dict keeps insertion order).
ServerRecords(gs, cache) ==
    [i \in 1..Len(gs) |-> ServerRecord(gs[i], IsPassworded(cache, gs[i]))]

\* A snapshot that marks its last record instead of its first.
MarkDefaultLast(sd) ==
    IF sd # <<>> THEN [sd EXCEPT ![Len(sd)].default = TRUE] ELSE sd

\* `if server_data: server_data[list(server_data.keys())[0]]["default"] = True`
MarkDefault(sd) == IF sd # <<>> THEN [sd EXCEPT ![1].default = TRUE] ELSE sd

\* A snapshot handed to the WebSocket server, with what it was built from.
Snapshot(by, gs, sd) ==
    [asked |-> TRUE, by |-> by, guilds |-> gs, cache |-> password_cache,
     result |-> sd]

\* dworld._get_server_data(): synchronous, it reads the cache only.
GetServerData ==
    /\ server_data' = Snapshot("_get_server_data", guilds,
                               MarkDefault(ServerRecords(guilds, password_cache)))
    /\ UNCHANGED <<members_config, handler, client_id, client_secret,
                   static_file_path, passworded, ignoreOfflineMembers,
                   password_cache, guilds, members, tasks, load, expected,
                   calls>>

\* WebSocketServerManager.get_server_data() up to its first config read: it
\* walks bot.guilds as it is when the loop starts; with no guild it returns
\* the empty dict at once.
StartGetServerData(t) ==
    /\ CanStart(t)
    /\ calls' = calls + 1
    /\ IF guilds = <<>>
       THEN /\ SetTask(t, [IdleTask EXCEPT !.op = "get_server_data",
                                           !.pc = "done"])
            /\ server_data' = Snapshot("get_server_data", <<>>, MarkDefault(<<>>))
       ELSE /\ SetTask(t, [IdleTask EXCEPT !.op = "get_server_data",
                                           !.pc = "g_read", !.todo = guilds])
            /\ UNCHANGED server_data
    /\ UNCHANGED <<members_config, handler, client_id, client_secret,
                   static_file_path, passworded, ignoreOfflineMembers,
                   password_cache, guilds, members, load, expected>>

\* `passworded = await self.config.guild(guild).passworded()` returns for the
\* next guild and its entry is stored; after the last guild the first key is
\* marked and the dict returned.
GetServerDataRead(t) ==
    /\ tasks[t].op = "get_server_data"
    /\ tasks[t].pc = "g_read"
    /\ LET r == tasks[t]
           g == r.todo[Len(r.acc) + 1]
           acc == Append(r.acc, ServerRecord(g, passworded[g]))
       IN IF Len(acc) = Len(r.todo)
          THEN /\ SetTask(t, [r EXCEPT !.pc = "done", !.acc = acc])
               /\ server_data' = Snapshot("get_server_data", r.todo,
                                          MarkDefault(acc))
          ELSE /\ SetTask(t, [r EXCEPT !.acc = acc])
               /\ UNCHANGED server_data
    /\ UNCHANGED <<members_config, handler, client_id, client_secret,
                   static_file_path, passworded, ignoreOfflineMembers,
                   password_cache, guilds, members, load, expected, calls>>

\* dworld.cog_load up to its first config read: `for guild in self.bot.guilds`
\* walks the guild list as it is when the loop starts.
StartLoad ==
    /\ load.pc = "init"
    /\ load' = IF guilds = <<>> THEN LoadDone
               ELSE [pc |-> "loading", todo |-> guilds]
    /\ UNCHANGED <<members_config, handler, client_id, client_secret,
                   static_file_path, passworded, ignoreOfflineMembers,
                   password_cache, guilds, members, tasks, server_data,
                   expected, calls>>

\* `passworded_state = await self.config.guild(guild).passworded()` returns and
\* `self._password_cache[guild.id] = passworded_state`; after the last guild
\* the server is started.
LoadStep ==
    /\ load.pc = "loading"
    /\ password_cache' =
          CachePut(password_cache, Head(load.todo), passworded[Head(load.todo)])
    /\ load' = IF Tail(load.todo) = <<>> THEN LoadDone
               ELSE [load EXCEPT !.todo = Tail(load.todo)]
    /\ UNCHANGED <<members_config, handler, client_id, client_secret,
                   static_file_path, passworded, ignoreOfflineMembers, guilds,
                   members, tasks, server_data, expected, calls>>

\* The bot joins a guild: the platform appends it to bot.guilds.
GuildJoin ==
    /\ \E g \in GuildIds \ Range(guilds) : guilds' = Append(guilds, g)
    /\ UNCHANGED <<members_config, handler, client_id, client_secret,
                   static_file_path, passworded, ignoreOfflineMembers,
                   password_cache, members, tasks, load, server_data, expected,
                   calls>>

\* The cog right after construction, over whatever flags earlier runs
\* persisted: the cache is empty and cog_load has not run.
InitSnapshot ==
    /\ client_id = None
    /\ client_secret = None
    /\ static_file_path = None
    /\ passworded \in [GuildIds -> BOOLEAN]
    /\ ignoreOfflineMembers = [g \in GuildIds |-> FALSE]
    /\ guilds = <<>>
    /\ password_cache = <<>>
    /\ members = [g \in GuildIds |-> UserIds]
    /\ tasks = [t \in Slots |-> IdleTask]
    /\ load = LoadIdle
    /\ server_data = NoSnapshot
    /\ expected = passworded
    /\ calls = 0
    /\ members_config = DefaultMembers
    /\ handler = IdleHandler

NextSnapshot ==
    \/ StartLoad
    \/ LoadStep
    \/ GetServerData
    \/ \E t \in Slots : StartGetServerData(t)
    \/ \E t \in Slots : GetServerDataRead(t)
    \/ GuildJoin

SpecSnapshot == InitSnapshot /\ [][NextSnapshot]_vars

\* ------------------------------------------------------------- claims
\* No handler that writes the passworded flag is between two of its awaits.
NoWriteInProgress == \A t \in Slots : Free(t)

ToggleDone(t) ==
    /\ tasks[t].op \in ToggleOps
    /\ tasks[t].pc = "done"
    /\ tasks[t].guild # NoGuild

\* C1: whenever start-up has finished and no handler that writes a guild's
\* passworded flag is in progress, the password cache entry of every served
\* guild equals the persisted flag.
C1_CacheCoherent ==
    (load.pc = "done" /\ NoWriteInProgress) =>
        \A g \in Range(guilds) : CacheGet(password_cache, g) = passworded[g]

\* C2: no step changes a guild's persisted passworded flag from false to true
\* while the persisted client id or client secret is empty or unset.
C2_NoEnableWithoutCredentials ==
    [][\A g \in GuildIds :
          (~passworded[g] /\ passworded'[g]) =>
              (~Falsy(client_id) /\ ~Falsy(client_secret))]_vars

\* C3: a toggle that read an empty or unset client id or client secret ends
\* with the precondition failure (ConfigManager returns success = False) and
\* has written neither the persisted flag nor the cache.
C3_ToggleRejectedWithoutCredentials ==
    \A t \in Slots :
        (ToggleDone(t) /\ (Falsy(tasks[t].cid) \/ Falsy(tasks[t].sec))) =>
            /\ tasks[t].msg = "precondition"
            /\ tasks[t].op = "toggle_protection" => tasks[t].ret = "False"
            /\ ~tasks[t].wrote

\* C3 witness: a rejected toggle on a guild whose protection is on, in the
\* store and in the cache.
C3_Witness ==
    \E t \in Slots :
        /\ ToggleDone(t)
        /\ Falsy(tasks[t].sec)
        /\ tasks[t].msg = "precondition"
        /\ passworded[tasks[t].guild]
        /\ CacheGet(password_cache, tasks[t].guild)

C5_NoLostUpdate ==
    NoWriteInProgress => \A g \in GuildIds : passworded[g] = expected[g]

\* C6: a validation answers True only if the claimed user has an id, the guild
\* id resolved to a served guild, both credentials were read non-empty, the
\* provider answered 200 with the claimed id, no step failed, and at the
\* moment of the answer that id is in the guild's member list.
C6_ValidateAndChain ==
    /\ [](\A t \in Slots :
            (tasks[t].op = "validate" /\ tasks[t].ret = "True") =>
                /\ ~Falsy(tasks[t].uid)
                /\ tasks[t].guild \in Range(guilds)
                /\ ~Falsy(tasks[t].cid) /\ ~Falsy(tasks[t].sec)
                /\ tasks[t].http = "200"
                /\ tasks[t].api = tasks[t].uid
                /\ tasks[t].exc = "none")
    /\ [][\A t \in Slots :
            (tasks'[t].op = "validate" /\ tasks'[t].ret = "True"
                /\ tasks[t].pc # "done") =>
                \E u \in members[tasks[t].guild] : ToString(u) = tasks[t].uid]_vars

\* C6 witness: a validation has answered True.
C6_Witness ==
    \E t \in Slots :
        /\ tasks[t].op = "validate"
        /\ tasks[t].pc = "done"
        /\ tasks[t].ret = "True"

\* C7: a validation never ends with an exception: it ends with True or False,
\* and with False whenever a step raised.
C7_ValidateNeverRaises ==
    \A t \in Slots :
        tasks[t].op = "validate" =>
            /\ tasks[t].pc # "raised"
            /\ tasks[t].pc = "done" => tasks[t].ret \in {"True", "False"}
            /\ tasks[t].exc # "none" =>
                  (tasks[t].pc = "done" /\ tasks[t].ret = "False")

\* C7 witness: int() of a user id that is not a number raised after the
\* provider had confirmed that id, and the validation answered False.
C7_Witness ==
    \E t \in Slots :
        /\ tasks[t].op = "validate"
        /\ tasks[t].pc = "done"
        /\ tasks[t].exc = "ValueError"
        /\ tasks[t].api = "x"
        /\ tasks[t].ret = "False"

C9_SnapshotFailsOpen ==
    server_data.by = "_get_server_data" =>
        \A i \in 1..Len(server_data.guilds) :
            LET g == server_data.guilds[i]
                known == g \in DOMAIN server_data.cache
            IN /\ i \in DOMAIN server_data.result
               /\ ~known => ~server_data.result[i].passworded
               /\ known => server_data.result[i].passworded = server_data.cache[g]

\* C9 witness: while cog_load is still filling the cache, a snapshot reported
\* an unloaded guild as unprotected although its persisted flag is set.
C9_Witness ==
    /\ server_data.by = "_get_server_data"
    /\ load.pc = "loading"
    /\ \E i \in 1..Len(server_data.guilds) :
          /\ server_data.guilds[i] \notin DOMAIN server_data.cache
          /\ passworded[server_data.guilds[i]]
          /\ ~server_data.result[i].passworded

\* C10: a snapshot over a non-empty guild list has exactly one record with
\* default = true, the record of the first guild; over an empty guild list it
\* is empty.
C10_OneDefault ==
    server_data.asked =>
        /\ Len(server_data.result) = Len(server_data.guilds)
        /\ server_data.guilds = <<>> => server_data.result = <<>>
        /\ server_data.guilds # <<>> =>
              /\ server_data.result[1].key = ToString(server_data.guilds[1])
              /\ {i \in DOMAIN server_data.result :
                      server_data.result[i].default} = {1}

\* C10 witness: both providers have answered over more than one guild.
C10_Witness ==
    /\ server_data.by = "_get_server_data"
    /\ Len(server_data.guilds) > 1
    /\ server_data.result[1].default
    /\ \E t \in Slots :
          /\ tasks[t].op = "get_server_data"
          /\ tasks[t].pc = "done"
          /\ Len(tasks[t].acc) > 1

\* ------------------------------------------- snapshots next to toggles
\* The bridge after start-up with both credentials set.
InitServed ==
    /\ Init
    /\ client_id = "A"
    /\ client_secret = "S"

\* The protection toggles and the two snapshot providers, interleaved.
NextServed ==
    \/ \E t \in Slots : StartToggleCommand(t)
    \/ \E t \in Slots : StartToggleManager(t)
    \/ \E t \in Slots : ToggleReadClientId(t)
    \/ \E t \in Slots : ToggleReadClientSecret(t)
    \/ \E t \in Slots : ToggleReadState(t)
    \/ \E t \in Slots : ToggleWrite(t)
    \/ GetServerData
    \/ \E t \in Slots : StartGetServerData(t)
    \/ \E t \in Slots : GetServerDataRead(t)

SpecServed == InitServed /\ [][NextServed]_vars

RawStatuses == {"online", "idle", "dnd", "offline", "invisible", "streaming"}

\* ListenerManager.STATUS_MAPPING, and the same dict built in get_user_data.
STATUS_MAPPING ==
    [raw \in {"online", "idle", "dnd", "offline", "invisible"} |->
        IF raw = "invisible" THEN "offline" ELSE raw]

\* A lookup that passes an unknown raw status through.
StatusOfIdentity(raw) ==
    IF raw \in DOMAIN STATUS_MAPPING THEN STATUS_MAPPING[raw] ELSE raw

\* `status_mapping.get(str(member.status), "offline")`
StatusOf(raw) ==
    IF raw \in DOMAIN STATUS_MAPPING THEN STATUS_MAPPING[raw] ELSE "offline"

\* A filter that never skips a member.
SkippedNever(ignore_offline, status) == FALSE

\* `if ignore_offline and status == "offline": continue`
Skipped(ignore_offline, status) == ignore_offline /\ status = "offline"

\* The loop of get_user_data over guild.members with the statuses it finds:
\* the dict keyed by str(member.id).  The display name and the role colour of
\* an entry are not modelled here.
UserData(ms, statuses, ignore_offline) ==
    [u \in {m \in ms : ~Skipped(ignore_offline, StatusOf(statuses[m]))} |->
        [uid |-> ToString(u), status |-> StatusOf(statuses[u])]]

\* discord_server_id as the WebSocket server passes it: missing, empty, not a
\* number, a served guild, or the id of a guild the bot is not in.
ServerIdArgs == {None, "", "x"} \cup {ToString(g) : g \in 1..(MaxGuilds + 1)}

UserDataOps == {"get_user_data", "_get_user_data"}

\* get_user_data up to its first await: the argument check and the lookup
\* `self.bot.get_guild(int(discord_server_id))`, which nothing guards.
UserDataLookup(r, sid) ==
    IF Falsy(sid) THEN [r EXCEPT !.pc = "done", !.ret = "dict"]
    ELSE IF ~IsNumeric(sid) THEN [r EXCEPT !.pc = "raised", !.exc = "ValueError"]
    ELSE IF IntOf(sid) \notin Range(guilds) THEN [r EXCEPT !.pc = "done", !.ret = "dict"]
    ELSE [r EXCEPT !.pc = "u_flag", !.guild = IntOf(sid)]

\* WebSocketServerManager.get_user_data(discord_server_id), one call at a time.
StartGetUserData(t) ==
    /\ CanStart(t)
    /\ \A u \in Slots : tasks[u].op \in UserDataOps => tasks[u].pc \in {"done", "raised"}
    /\ \E sid \in ServerIdArgs :
         SetTask(t, UserDataLookup([IdleTask EXCEPT !.op = "get_user_data",
                                                    !.arg = sid], sid))
    /\ calls' = calls + 1
    /\ UNCHANGED <<members_config, handler, client_id, client_secret,
                   static_file_path, passworded, ignoreOfflineMembers,
                   password_cache, guilds, members, load, server_data,
                   expected>>

\* `ignore_offline = await self.config.guild(guild).ignoreOfflineMembers()`
UserDataReadFlag(t) ==
    /\ tasks[t].op = "get_user_data" /\ tasks[t].pc = "u_flag"
    /\ SetTask(t, [tasks[t] EXCEPT !.cur = ignoreOfflineMembers[tasks[t].guild],
                                   !.pc = "u_members"])
    /\ UNCHANGED <<members_config, handler, client_id, client_secret,
                   static_file_path, passworded, ignoreOfflineMembers,
                   password_cache, guilds, members, load, server_data,
                   expected, calls>>

\* `members_config = await self.config.guild(guild).members()` returns and the
\* loop runs over guild.members, whose statuses are what the platform reports
\* at that moment.
UserDataBuild(t) ==
    /\ tasks[t].op = "get_user_data" /\ tasks[t].pc = "u_members"
    /\ \E statuses \in [members[tasks[t].guild] -> RawStatuses] :
         SetTask(t, [tasks[t] EXCEPT
                        !.pc = "done", !.ret = "dict", !.seen = statuses,
                        !.users = UserData(members[tasks[t].guild], statuses,
                                           tasks[t].cur)])
    /\ UNCHANGED <<members_config, handler, client_id, client_secret,
                   static_file_path, passworded, ignoreOfflineMembers,
                   password_cache, guilds, members, load, server_data,
                   expected, calls>>

\* dworld._get_user_data(discord_server_id): synchronous, and it has no
\* ignoreOfflineMembers setting, so every member is reported.
GetUserDataSync(t) ==
    /\ CanStart(t)
    /\ \A u \in Slots : tasks[u].op \in UserDataOps => tasks[u].pc \in {"done", "raised"}
    /\ \E sid \in ServerIdArgs :
         LET r == UserDataLookup([IdleTask EXCEPT !.op = "_get_user_data",
                                                  !.arg = sid], sid)
         IN IF r.pc = "u_flag"
            THEN \E statuses \in [members[r.guild] -> RawStatuses] :
                   SetTask(t, [r EXCEPT !.pc = "done", !.ret = "dict",
                                        !.seen = statuses,
                                        !.users = UserData(members[r.guild],
                                                           statuses, FALSE)])
            ELSE SetTask(t, r)
    /\ calls' = calls + 1
    /\ UNCHANGED <<members_config, handler, client_id, client_secret,
                   static_file_path, passworded, ignoreOfflineMembers,
                   password_cache, guilds, members, load, server_data,
                   expected>>

\* ConfigManager.toggle_ignore_offline(guild), up to its first await.
StartToggleIgnoreOffline(t) ==
    /\ CanStart(t)
    /\ \E g \in Range(guilds) :
         SetTask(t, [IdleTask EXCEPT !.op = "toggle_ignore_offline",
                                     !.pc = "i_cur", !.guild = g])
    /\ calls' = calls + 1
    /\ UNCHANGED <<members_config, handler, client_id, client_secret,
                   static_file_path, passworded, ignoreOfflineMembers,
                   password_cache, guilds, members, load, server_data,
                   expected>>

\* `current_state = await self.config.guild(guild).ignoreOfflineMembers()`
ToggleIgnoreOfflineRead(t) ==
    /\ tasks[t].op = "toggle_ignore_offline" /\ tasks[t].pc = "i_cur"
    /\ SetTask(t, [tasks[t] EXCEPT
                      !.cur = ignoreOfflineMembers[tasks[t].guild],
                      !.data = NewState(ignoreOfflineMembers[tasks[t].guild]),
                      !.pc = "i_set"])
    /\ UNCHANGED <<members_config, handler, client_id, client_secret,
                   static_file_path, passworded, ignoreOfflineMembers,
                   password_cache, guilds, members, load, server_data,
                   expected, calls>>

\* `await self.config.guild(guild).ignoreOfflineMembers.set(new_state)` and
\* `return new_state, message`
ToggleIgnoreOfflineWrite(t) ==
    /\ tasks[t].op = "toggle_ignore_offline" /\ tasks[t].pc = "i_set"
    /\ ignoreOfflineMembers' =
          [ignoreOfflineMembers EXCEPT ![tasks[t].guild] = tasks[t].data]
    /\ SetTask(t, [tasks[t] EXCEPT !.pc = "done", !.wrote = TRUE,
                                   !.ret = BoolStr(tasks[t].data),
                                   !.msg = StatusWord(tasks[t].data)])
    /\ UNCHANGED <<members_config, handler, client_id, client_secret,
                   static_file_path, passworded, password_cache, guilds,
                   members, load, server_data, expected, calls>>

\* The bridge after start-up: user 1 is a member of every guild and user g of
\* guild g, and each guild's ignoreOfflineMembers is whatever earlier runs
\* persisted.
InitMembers ==
    /\ client_id = None
    /\ client_secret = None
    /\ static_file_path = None
    /\ passworded = [g \in GuildIds |-> FALSE]
    /\ ignoreOfflineMembers \in [GuildIds -> BOOLEAN]
    /\ guilds = AllGuilds
    /\ password_cache = LoadedCache(passworded, guilds)
    /\ members = [g \in GuildIds |-> {1, g} \cap UserIds]
    /\ tasks = [t \in Slots |-> IdleTask]
    /\ load = LoadDone
    /\ server_data = NoSnapshot
    /\ expected = passworded
    /\ calls = 0
    /\ members_config = DefaultMembers
    /\ handler = IdleHandler

NextMembers ==
    \/ \E t \in Slots : StartGetUserData(t)
    \/ \E t \in Slots : UserDataReadFlag(t)
    \/ \E t \in Slots : UserDataBuild(t)
    \/ \E t \in Slots : StartToggleIgnoreOffline(t)
    \/ \E t \in Slots : ToggleIgnoreOfflineRead(t)
    \/ \E t \in Slots : ToggleIgnoreOfflineWrite(t)

SpecMembers == InitMembers /\ [][NextMembers]_vars

\* The member snapshot of every variant, the synchronous one included.
NextMembersAll ==
    \/ NextMembers
    \/ \E t \in Slots : GetUserDataSync(t)

SpecMembersAll == InitMembers /\ [][NextMembersAll]_vars

\* C12: a member snapshot holds a member of the guild exactly when it is not
\* the case that the call read ignoreOfflineMembers as true and the member's
\* canonical status is offline; an entry carries the canonical status.
C12_OfflineFilter ==
    \A t \in Slots :
        (tasks[t].op = "get_user_data" /\ tasks[t].pc = "done"
           /\ tasks[t].guild # NoGuild) =>
            /\ \A m \in members[tasks[t].guild] :
                 m \in DOMAIN tasks[t].users <=>
                    ~(tasks[t].cur /\ StatusOf(tasks[t].seen[m]) = "offline")
            /\ DOMAIN tasks[t].users \subseteq members[tasks[t].guild]
            /\ \A m \in DOMAIN tasks[t].users :
                 /\ tasks[t].users[m].uid = ToString(m)
                 /\ tasks[t].users[m].status = StatusOf(tasks[t].seen[m])

\* C12 witness: with the flag on, a snapshot left out an invisible member and
\* kept an idle one.
C12_Witness ==
    \E t \in Slots :
        /\ tasks[t].op = "get_user_data" /\ tasks[t].pc = "done"
        /\ tasks[t].guild # NoGuild
        /\ tasks[t].cur
        /\ \E m, n \in members[tasks[t].guild] :
              /\ tasks[t].seen[m] = "invisible"
              /\ m \notin DOMAIN tasks[t].users
              /\ tasks[t].seen[n] = "idle"
              /\ n \in DOMAIN tasks[t].users

\* C13: a member snapshot for an argument that does not resolve to a served
\* guild (missing, empty, not a number, or an unknown id) ends without an
\* exception and returns the empty dict.
C13_UnknownGuildEmpty ==
    \A t \in Slots :
        (/\ tasks[t].op \in UserDataOps
         /\ tasks[t].pc \in {"done", "raised"}
         /\ \/ Falsy(tasks[t].arg)
            \/ ~IsNumeric(tasks[t].arg)
            \/ IntOf(tasks[t].arg) \notin Range(guilds)) =>
            /\ tasks[t].pc = "done"
            /\ tasks[t].exc = "none"
            /\ tasks[t].users = <<>>

\* ------------------------------------------------------- presence pushes
\* The presence broadcast a listener hands to the server: server=str(guild.id),
\* uid=str(member.id), status; the name and the colour are not modelled.
Presence(g, uid, status) ==
    [event |-> "presence", server |-> ToString(g), uid |-> uid,
     status |-> status]

\* A change test that sees every event as a change.
StatusChangedAlways(before, after) == TRUE

\* `if before.status != after.status`
StatusChanged(before, after) == before # after

ListenerOps == {"handle_member_update", "handle_member_join"}

\* ListenerManager.handle_member_update(before, after) up to its first await:
\* the platform reports any pair of statuses, equal ones when only another
\* attribute of the member changed.  Listener calls write nothing and share
\* nothing, so one is followed at a time.
StartMemberUpdate(t) ==
    /\ CanStart(t)
    /\ \A s \in Slots : tasks[s].op \in ListenerOps => tasks[s].pc = "done"
    /\ \E g \in Range(guilds) : \E u \in members[g] :
       \E before \in RawStatuses, after \in RawStatuses :
         LET r == [IdleTask EXCEPT !.op = "handle_member_update", !.guild = g,
                                   !.uid = ToString(u), !.before = before,
                                   !.arg = after]
         IN SetTask(t, IF StatusChanged(before, after)
                       THEN [r EXCEPT !.pc = "l_color"]
                       ELSE [r EXCEPT !.pc = "done", !.ret = "None"])
    /\ calls' = calls + 1
    /\ UNCHANGED <<members_config, handler, client_id, client_secret,
                   static_file_path, passworded, ignoreOfflineMembers,
                   password_cache, guilds, members, load, server_data,
                   expected>>

\* ListenerManager.handle_member_join(member) up to its first await.
StartMemberJoin(t) ==
    /\ CanStart(t)
    /\ \A s \in Slots : tasks[s].op \in ListenerOps => tasks[s].pc = "done"
    /\ \E g \in Range(guilds) : \E u \in members[g] : \E raw \in RawStatuses :
         SetTask(t, [IdleTask EXCEPT !.op = "handle_member_join", !.guild = g,
                                     !.uid = ToString(u), !.arg = raw,
                                     !.pc = "l_color"])
    /\ calls' = calls + 1
    /\ UNCHANGED <<members_config, handler, client_id, client_secret,
                   static_file_path, passworded, ignoreOfflineMembers,
                   password_cache, guilds, members, load, server_data,
                   expected>>

\* `role_color = await self.get_member_role_color_func(...)` returns, the
\* status is mapped and `await self.server.broadcast_presence(...)` is called.
ListenerBroadcast(t) ==
    /\ tasks[t].op \in ListenerOps /\ tasks[t].pc = "l_color"
    /\ SetTask(t, [tasks[t] EXCEPT
                      !.pc = "done", !.ret = "None",
                      !.acc = Append(tasks[t].acc,
                                     Presence(tasks[t].guild, tasks[t].uid,
                                              StatusOf(tasks[t].arg)))])
    /\ UNCHANGED <<members_config, handler, client_id, client_secret,
                   static_file_path, passworded, ignoreOfflineMembers,
                   password_cache, guilds, members, load, server_data,
                   expected, calls>>

\* Snapshots and pushes of member presence.
NextPresence ==
    \/ \E t \in Slots : StartGetUserData(t)
    \/ \E t \in Slots : UserDataReadFlag(t)
    \/ \E t \in Slots : UserDataBuild(t)
    \/ \E t \in Slots : StartMemberUpdate(t)
    \/ \E t \in Slots : StartMemberJoin(t)
    \/ \E t \in Slots : ListenerBroadcast(t)

\* The bridge after start-up with the default ignoreOfflineMembers = False.
InitPresence ==
    /\ InitMembers
    /\ ignoreOfflineMembers = [g \in GuildIds |-> FALSE]

SpecPresence == InitPresence /\ [][NextPresence]_vars

\* The listeners alone.
NextListener ==
    \/ \E t \in Slots : StartMemberUpdate(t)
    \/ \E t \in Slots : StartMemberJoin(t)
    \/ \E t \in Slots : ListenerBroadcast(t)

SpecListener == InitPresence /\ [][NextListener]_vars

\* C14: the status mapping is total over the raw statuses, keeps online, idle,
\* dnd and offline, and sends everything else, invisible included, to offline;
\* snapshot entries, presence-change pushes and member-join pushes all carry
\* the status so mapped.
C14_CanonicalStatus ==
    /\ \A raw \in RawStatuses :
         StatusOf(raw) = (IF raw \in {"online", "idle", "dnd", "offline"}
                          THEN raw ELSE "offline")
    /\ \A t \in Slots :
         /\ (tasks[t].op = "get_user_data" /\ tasks[t].pc = "done") =>
               \A m \in DOMAIN tasks[t].users :
                  tasks[t].users[m].status =
                     (IF tasks[t].seen[m] \in {"online", "idle", "dnd", "offline"}
                      THEN tasks[t].seen[m] ELSE "offline")
         /\ (tasks[t].op \in ListenerOps /\ tasks[t].pc = "done") =>
               \A i \in DOMAIN tasks[t].acc :
                  tasks[t].acc[i].status =
                     (IF tasks[t].arg \in {"online", "idle", "dnd", "offline"}
                      THEN tasks[t].arg ELSE "offline")

\* C14 witness: a snapshot entry, a presence-change push and a member-join
\* push of a member whose raw status is neither of the four.
C14_Witness ==
    /\ \E t \in Slots :
          /\ tasks[t].op = "get_user_data" /\ tasks[t].pc = "done"
          /\ \E m \in DOMAIN tasks[t].users :
                tasks[t].seen[m] \in {"invisible", "streaming"}
    /\ \E t \in Slots :
          /\ tasks[t].op \in ListenerOps /\ tasks[t].pc = "done"
          /\ tasks[t].arg = "streaming"
          /\ tasks[t].acc # <<>>

\* ---------------------------------------------------------- role colour
\* A colour string is the sequence of its characters.
HexDigits ==
    <<"0", "1", "2", "3", "4", "5", "6", "7", "8", "9",
      "a", "b", "c", "d", "e", "f">>

\* "0123456789abcdefABCDEF"
HexChars == Range(HexDigits) \cup {"A", "B", "C", "D", "E", "F"}

White == <<"#", "f", "f", "f", "f", "f", "f">>

\* What members_config holds for the member: no entry or no "role_color" key
\* (absent), a string, or a value that is not a string.
StoredColors ==
    {[kind |-> "absent", chars |-> <<>>],
     [kind |-> "other", chars |-> <<>>],
     [kind |-> "str", chars |-> <<>>],
     [kind |-> "str", chars |-> <<"#", "0", "0", "A", "b", "9", "F">>],
     [kind |-> "str", chars |-> <<"#", "0", "0", "A", "b", "9">>],
     [kind |-> "str", chars |-> <<"#", "0", "0", "A", "b", "9", "F", "0">>],
     [kind |-> "str", chars |-> <<"#", "0", "0", "g", "b", "9", "F">>],
     [kind |-> "str", chars |-> <<"0", "0", "0", "A", "b", "9", "F">>]}

\* member.top_role: none, or a role with a 24-bit colour value.
TopRoles ==
    {[present |-> FALSE, value |-> 0]} \cup
    {[present |-> TRUE, value |-> v] : v \in {0, 1, 2748, 1048576, 16777215}}

\* format(n, "x")
RECURSIVE Hex(_)
Hex(n) ==
    IF n < 16 THEN <<HexDigits[n + 1]>>
    ELSE Append(Hex(n \div 16), HexDigits[(n % 16) + 1])

\* The zero padding of the format spec 06x.
RECURSIVE Pad6(_)
Pad6(digits) == IF Len(digits) >= 6 THEN digits ELSE Pad6(<<"0">> \o digits)

\* f"#{value:06x}"
RoleColorString(value) == <<"#">> \o Pad6(Hex(value))

\* The validation of the stored colour: a string, seven characters, "#" first,
\* hex digits after it.
ValidCustomColor(v) ==
    /\ v.kind = "str"
    /\ Len(v.chars) = 7
    /\ v.chars[1] = "#"
    /\ \A i \in 2..7 : v.chars[i] \in HexChars

\* A resolver that prefers the platform colour to the stored one.
ResolveColorRoleFirst(stored, role) ==
    IF role.present /\ role.value # 0 THEN RoleColorString(role.value)
    ELSE IF ValidCustomColor(stored) THEN stored.chars
    ELSE White

\* get_member_role_color(member, members_config) once the config is at hand.
ResolveColor(stored, role) ==
    IF ValidCustomColor(stored) THEN stored.chars
    ELSE IF role.present /\ role.value # 0 THEN RoleColorString(role.value)
    ELSE White

\* get_member_role_color(member) as the listeners call it, up to
\* `members_config = await self.config.guild(member.guild).members()`.
StartGetMemberRoleColor(t) ==
    /\ CanStart(t)
    /\ \E role \in TopRoles :
         SetTask(t, [IdleTask EXCEPT !.op = "get_member_role_color",
                                     !.pc = "c_config", !.role = role])
    /\ calls' = calls + 1
    /\ UNCHANGED <<members_config, handler, client_id, client_secret,
                   static_file_path, passworded, ignoreOfflineMembers,
                   password_cache, guilds, members, load, server_data,
                   expected>>

\* A resolver that deletes the stored customization when the stored colour
\* is invalid.
GetMemberRoleColorRepairs(t) ==
    /\ tasks[t].op = "get_member_role_color" /\ tasks[t].pc = "c_config"
    /\ \E stored \in StoredColors :
         /\ SetTask(t, [tasks[t] EXCEPT
                          !.pc = "done", !.stored = stored,
                          !.color = ResolveColor(stored, tasks[t].role)])
         /\ members_config' =
               IF stored.kind = "str" /\ ~ValidCustomColor(stored)
               THEN [g \in GuildIds |-> <<>>]
               ELSE members_config
    /\ UNCHANGED <<handler, client_id, client_secret, static_file_path,
                   passworded, ignoreOfflineMembers, password_cache, guilds,
                   members, load, server_data, expected, calls>>

\* The config read returns what is stored for the member and the colour is
\* resolved.
GetMemberRoleColorReturn(t) ==
    /\ tasks[t].op = "get_member_role_color" /\ tasks[t].pc = "c_config"
    /\ \E stored \in StoredColors :
         SetTask(t, [tasks[t] EXCEPT !.pc = "done", !.stored = stored,
                                     !.color = ResolveColor(stored, tasks[t].role)])
    /\ UNCHANGED <<members_config, handler, client_id, client_secret,
                   static_file_path, passworded, ignoreOfflineMembers,
                   password_cache, guilds, members, load, server_data,
                   expected, calls>>

NextColor ==
    \/ \E t \in Slots : StartGetMemberRoleColor(t)
    \/ \E t \in Slots : GetMemberRoleColorReturn(t)

SpecColor == InitPresence /\ [][NextColor]_vars

\* The number a string of lowercase hex digits stands for.
RECURSIVE HexValue(_)
HexValue(digits) ==
    IF digits = <<>> THEN 0
    ELSE 16 * HexValue(SubSeq(digits, 1, Len(digits) - 1))
         + (CHOOSE d \in 0..15 : HexDigits[d + 1] = digits[Len(digits)])

\* C15: the colour resolver never fails and returns the stored colour when it
\* is "#" and six hex digits, whatever the top role; otherwise, when the top
\* role's colour value is not zero, "#" and that value as six lowercase
\* zero-padded hex digits; otherwise #ffffff.
C15_ResolveColor ==
    \A t \in Slots :
        (tasks[t].op = "get_member_role_color" /\ tasks[t].pc # "c_config") =>
            LET v == tasks[t].stored
                custom == /\ v.kind = "str"
                          /\ Len(v.chars) = 7
                          /\ v.chars[1] = "#"
                          /\ \A i \in 2..7 : v.chars[i] \in HexChars
                c == tasks[t].color
            IN /\ tasks[t].pc = "done"
               /\ tasks[t].exc = "none"
               /\ custom => c = v.chars
               /\ (~custom /\ tasks[t].role.present /\ tasks[t].role.value # 0) =>
                     /\ Len(c) = 7
                     /\ c[1] = "#"
                     /\ \A i \in 2..7 : c[i] \in Range(HexDigits)
                     /\ HexValue(SubSeq(c, 2, 7)) = tasks[t].role.value
               /\ (~custom /\ ~(tasks[t].role.present /\ tasks[t].role.value # 0)) =>
                     c = <<"#", "f", "f", "f", "f", "f", "f">>

\* C15 witness: a valid stored colour won over a coloured top role in one
\* call, and an invalid one gave way to the role colour in another.
C15_Witness ==
    /\ \E t \in Slots :
          /\ tasks[t].op = "get_member_role_color" /\ tasks[t].pc = "done"
          /\ tasks[t].role.value = 2748
          /\ tasks[t].color = <<"#", "0", "0", "A", "b", "9", "F">>
    /\ \E t \in Slots :
          /\ tasks[t].op = "get_member_role_color" /\ tasks[t].pc = "done"
          /\ tasks[t].stored.kind = "str"
          /\ Len(tasks[t].stored.chars) = 8
          /\ tasks[t].color = <<"#", "0", "0", "0", "a", "b", "c">>

\* ---------------------------------------------------------- static files
\* A requested path is the sequence of its characters; "a" stands for every
\* character that is neither a slash nor a dot.
PathChars == {"/", ".", "a"}

RequestPaths == UNION {[1..n -> PathChars] : n \in 0..MaxPathLen}

IndexHtml == <<"index.html">>

\* path.lstrip("/"): every leading slash goes.
RECURSIVE LStripSlash(_)
LStripSlash(path) ==
    IF path # <<>> /\ Head(path) = "/" THEN LStripSlash(Tail(path)) ELSE path

\* `".." in path`: two dots next to each other, anywhere.
HasDotDot(path) ==
    \E i \in 1..(Len(path) - 1) : path[i] = "." /\ path[i + 1] = "."

\* path.startswith("/")
StartsWithSlash(path) == path # <<>> /\ Head(path) = "/"

\* A check that lets parent-directory paths through.
RejectedNever(stripped) == FALSE

\* `if ".." in path or path.startswith("/")`, on the stripped path
Rejected(stripped) == HasDotDot(stripped) \/ StartsWithSlash(stripped)

\* A default that is only applied to the empty path before stripping.
ServedPathNoIndex(stripped) == stripped

\* `if path == "/" or path == "": path = "index.html"`
ServedPath(stripped) ==
    IF stripped = <<"/">> \/ stripped = <<>> THEN IndexHtml ELSE stripped

\* handle_static_request(path) up to `await self.config.static_file_path()`.
\* Requests write nothing and share nothing, so one is followed at a time.
StartStaticRequest(t) ==
    /\ CanStart(t)
    /\ \A s \in Slots : tasks[s].op = "handle_static_request" => tasks[s].pc = "done"
    /\ \E path \in RequestPaths :
         SetTask(t, [IdleTask EXCEPT !.op = "handle_static_request",
                                     !.pc = "s_config", !.path = path])
    /\ calls' = calls + 1
    /\ UNCHANGED <<members_config, handler, client_id, client_secret,
                   static_file_path, passworded, ignoreOfflineMembers,
                   password_cache, guilds, members, load, server_data,
                   expected>>

\* The config read returns and the request is resolved: None, or the content
\* type with os.path.join(static_file_path, path), kept here as the root and
\* the relative part that were joined.  The content type is not modelled.
StaticRequestReturn(t) ==
    /\ tasks[t].op = "handle_static_request" /\ tasks[t].pc = "s_config"
    /\ LET stripped == LStripSlash(tasks[t].path)
           r == [tasks[t] EXCEPT !.pc = "done", !.root = static_file_path]
       IN SetTask(t,
            IF Falsy(static_file_path) \/ Rejected(stripped)
            THEN [r EXCEPT !.ret = "None"]
            ELSE [r EXCEPT !.ret = "tuple", !.rel = ServedPath(stripped)])
    /\ UNCHANGED <<members_config, handler, client_id, client_secret,
                   static_file_path, passworded, ignoreOfflineMembers,
                   password_cache, guilds, members, load, server_data,
                   expected, calls>>

\* ConfigMixin.setstaticpath(path): one config write; path defaults to None.
SetStaticPath ==
    /\ \E v \in PathValues \cup {None} :
         /\ v # static_file_path
         /\ static_file_path' = v
    /\ UNCHANGED <<members_config, handler, client_id, client_secret,
                   passworded, ignoreOfflineMembers, password_cache, guilds,
                   members, tasks, load, server_data, expected, calls>>

\* The bridge after start-up with or without an override root.
InitStatic ==
    /\ client_id = None
    /\ client_secret = None
    /\ static_file_path \in PathValues \cup {None}
    /\ passworded = [g \in GuildIds |-> FALSE]
    /\ ignoreOfflineMembers = [g \in GuildIds |-> FALSE]
    /\ guilds = AllGuilds
    /\ password_cache = LoadedCache(passworded, guilds)
    /\ members = [g \in GuildIds |-> {1, g} \cap UserIds]
    /\ tasks = [t \in Slots |-> IdleTask]
    /\ load = LoadDone
    /\ server_data = NoSnapshot
    /\ expected = passworded
    /\ calls = 0
    /\ members_config = DefaultMembers
    /\ handler = IdleHandler

NextStatic ==
    \/ \E t \in Slots : StartStaticRequest(t)
    \/ \E t \in Slots : StaticRequestReturn(t)
    \/ SetStaticPath

SpecStatic == InitStatic /\ [][NextStatic]_vars

StaticDone(t) ==
    tasks[t].op = "handle_static_request" /\ tasks[t].pc = "done"

C17_IndexAndNoRoot ==
    \A t \in Slots :
        StaticDone(t) =>
            /\ (~Falsy(tasks[t].root) /\ tasks[t].path \in {<<>>, <<"/">>}) =>
                  /\ tasks[t].ret = "tuple"
                  /\ tasks[t].root \in PathValues
                  /\ tasks[t].rel = <<"index.html">>
            /\ Falsy(tasks[t].root) =>
                  /\ tasks[t].ret = "None"
                  /\ tasks[t].rel = <<>>

\* C17 witness: "/" was served as index.html after the root had been
\* configured by setstaticpath.
C17_Witness ==
    \E t \in Slots :
        /\ StaticDone(t)
        /\ tasks[t].path = <<"/">>
        /\ tasks[t].ret = "tuple"
        /\ tasks[t].rel = <<"index.html">>
        /\ tasks[t].root = static_file_path

\* ------------------------------------------------------ client id fan-out
\* One call of server.broadcast_client_id_update(str(guild.id), client_id) and
\* whether it returned or raised.
Broadcast(g, id, ok) == [server |-> ToString(g), client_id |-> id, ok |-> ok]

\* Only ConfigManager.update_client_id wraps the broadcast in try/except.
CatchesBroadcastError(op) == op = "update_client_id"

ClientIdOps == {"setclientid", "updateclientid", "update_client_id"}

\* The fan-out starts (or is skipped): `for guild in self.bot.guilds`.
FanOut(r, cast) ==
    IF cast /\ guilds # <<>> THEN [r EXCEPT !.pc = "k_cast", !.todo = guilds]
    ELSE [r EXCEPT !.pc = "done", !.ret = "None",
                   !.msg = IF cast THEN "sent" ELSE "set"]

\* dworld.setclientid(ctx, client_id), up to its first await.
StartSetClientId(t) ==
    /\ CanStart(t)
    /\ \E v \in ClientIdValues :
         SetTask(t, [IdleTask EXCEPT !.op = "setclientid", !.pc = "k_old",
                                     !.arg = v])
    /\ calls' = calls + 1
    /\ UNCHANGED <<members_config, handler, client_id, client_secret,
                   static_file_path, passworded, ignoreOfflineMembers,
                   password_cache, guilds, members, load, server_data,
                   expected>>

\* `old_client_id = await self.config.client_id()`
SetClientIdReadOld(t) ==
    /\ tasks[t].op = "setclientid" /\ tasks[t].pc = "k_old"
    /\ SetTask(t, [tasks[t] EXCEPT !.old = client_id, !.pc = "k_set"])
    /\ UNCHANGED <<members_config, handler, client_id, client_secret,
                   static_file_path, passworded, ignoreOfflineMembers,
                   password_cache, guilds, members, load, server_data,
                   expected, calls>>

\* `await self.config.client_id.set(client_id)`, the confirmation and
\* `if old_client_id != client_id`.
SetClientIdWrite(t) ==
    /\ tasks[t].op = "setclientid" /\ tasks[t].pc = "k_set"
    /\ client_id' = tasks[t].arg
    /\ SetTask(t, FanOut([tasks[t] EXCEPT !.wrote = TRUE],
                         tasks[t].old # tasks[t].arg))
    /\ UNCHANGED <<members_config, handler, client_secret, static_file_path,
                   passworded, ignoreOfflineMembers, password_cache, guilds,
                   members, load, server_data, expected, calls>>

\* dworld.updateclientid / ConfigManager.update_client_id, up to the await of
\* `self.config.client_id.set(client_id)`.
StartUpdateClientId(t) ==
    /\ CanStart(t)
    /\ \E v \in ClientIdValues, op \in {"updateclientid", "update_client_id"} :
         SetTask(t, [IdleTask EXCEPT !.op = op, !.pc = "k_set", !.arg = v])
    /\ calls' = calls + 1
    /\ UNCHANGED <<members_config, handler, client_id, client_secret,
                   static_file_path, passworded, ignoreOfflineMembers,
                   password_cache, guilds, members, load, server_data,
                   expected>>

\* The write returns and the fan-out starts whatever was stored before (old is
\* kept for the record only: the code does not read it).
UpdateClientIdWrite(t) ==
    /\ tasks[t].op \in {"updateclientid", "update_client_id"}
    /\ tasks[t].pc = "k_set"
    /\ client_id' = tasks[t].arg
    /\ SetTask(t, FanOut([tasks[t] EXCEPT !.wrote = TRUE, !.old = client_id],
                         TRUE))
    /\ UNCHANGED <<members_config, handler, client_secret, static_file_path,
                   passworded, ignoreOfflineMembers, password_cache, guilds,
                   members, load, server_data, expected, calls>>

\* The end of the fan-out: the commands send a confirmation,
\* ConfigManager.update_client_id returns (True, message) where the message
\* counts and names the guilds in failed_broadcasts.
FanOutDone(r) ==
    [r EXCEPT !.pc = "done",
              !.ret = IF r.op = "update_client_id" THEN "True" ELSE "None",
              !.msg = IF r.failed # <<>> THEN "sent_but_failed" ELSE "sent"]

\* `await self.server.broadcast_client_id_update(str(guild.id), client_id)`
\* for the next guild: it returns or it raises.
BroadcastClientId(t) ==
    /\ tasks[t].op \in ClientIdOps /\ tasks[t].pc = "k_cast"
    /\ \E ok \in BOOLEAN :
         LET r == tasks[t]
             g == r.todo[Len(r.acc) + 1]
             cast == [r EXCEPT !.acc = Append(r.acc, Broadcast(g, r.arg, ok))]
             next == IF ok THEN cast
                     ELSE [cast EXCEPT !.failed = Append(r.failed, g)]
         IN SetTask(t,
              IF ~ok /\ ~CatchesBroadcastError(r.op)
              THEN [cast EXCEPT !.pc = "raised", !.exc = "Exception"]
              ELSE IF Len(next.acc) = Len(r.todo) THEN FanOutDone(next)
              ELSE next)
    /\ UNCHANGED <<members_config, handler, client_id, client_secret,
                   static_file_path, passworded, ignoreOfflineMembers,
                   password_cache, guilds, members, load, server_data,
                   expected, calls>>

\* Every path that writes client_id: the two commands, the manager, and the
\* dashboard page.
NextClientId ==
    \/ \E t \in Slots : StartSetClientId(t)
    \/ \E t \in Slots : SetClientIdReadOld(t)
    \/ \E t \in Slots : SetClientIdWrite(t)
    \/ \E t \in Slots : StartUpdateClientId(t)
    \/ \E t \in Slots : UpdateClientIdWrite(t)
    \/ \E t \in Slots : BroadcastClientId(t)
    \/ \E t \in Slots : StartDashboard(t)
    \/ \E t \in Slots : DashReadClientId(t)
    \/ \E t \in Slots : DashReadClientSecret(t)
    \/ \E t \in Slots : DashForms(t)
    \/ \E t \in Slots : DashSetPassworded(t)
    \/ \E t \in Slots : DashSetIgnoreOffline(t)
    \/ \E t \in Slots : DashSetClientId(t)
    \/ \E t \in Slots : DashSetClientSecret(t)
    \/ \E t \in Slots : DashSetStaticPath(t)

SpecClientId == Init /\ [][NextClientId]_vars

\* C18: a write of client_id that changes the stored value is followed by one
\* broadcast call per served guild carrying the new id, a write of the value
\* already stored by none, on every path that writes client_id.
C18_BroadcastOnChange ==
    /\ [](\A t \in Slots :
            (tasks[t].op \in ClientIdOps /\ tasks[t].pc = "done") =>
                IF tasks[t].old = tasks[t].arg THEN tasks[t].acc = <<>>
                ELSE /\ Len(tasks[t].acc) = Len(guilds)
                     /\ \A i \in 1..Len(guilds) :
                          /\ tasks[t].acc[i].server = ToString(guilds[i])
                          /\ tasks[t].acc[i].client_id = tasks[t].arg)
    /\ [][client_id' # client_id =>
            \E t \in Slots : /\ tasks[t].op \in ClientIdOps
                             /\ tasks'[t] # tasks[t]]_vars

\* C19: a fan-out in which a broadcast failed still calls the broadcast for
\* every served guild and ends with a summary whose failed guilds are exactly
\* the guilds whose broadcast raised.
C19_FanOutSurvivesFailure ==
    \A t \in Slots :
        (/\ tasks[t].op \in ClientIdOps
         /\ tasks[t].pc \in {"done", "raised"}
         /\ \E i \in DOMAIN tasks[t].acc : ~tasks[t].acc[i].ok) =>
            /\ tasks[t].pc = "done"
            /\ Len(tasks[t].acc) = Len(tasks[t].todo)
            /\ tasks[t].msg = "sent_but_failed"
            /\ Range(tasks[t].failed) =
                  {tasks[t].todo[i] : i \in {j \in DOMAIN tasks[t].acc :
                                               ~tasks[t].acc[j].ok}}

\* C20: a member-update event whose before and after statuses differ ends
\* with exactly one presence broadcast, for that member and guild, carrying
\* the canonical form of the new status; an event whose statuses are equal
\* (only other attributes changed) ends with none, and no broadcast is made
\* before the handler has resolved the colour.
C20_BroadcastOnStatusChange ==
    \A t \in Slots :
        tasks[t].op = "handle_member_update" =>
            /\ tasks[t].pc \in {"l_color", "done"}
            /\ tasks[t].pc = "l_color" =>
                  /\ tasks[t].before # tasks[t].arg
                  /\ tasks[t].acc = <<>>
            /\ (tasks[t].pc = "done" /\ tasks[t].before = tasks[t].arg) =>
                  tasks[t].acc = <<>>
            /\ (tasks[t].pc = "done" /\ tasks[t].before # tasks[t].arg) =>
                  /\ Len(tasks[t].acc) = 1
                  /\ tasks[t].acc[1].event = "presence"
                  /\ tasks[t].acc[1].server = ToString(tasks[t].guild)
                  /\ tasks[t].acc[1].uid = tasks[t].uid
                  /\ tasks[t].acc[1].status =
                        (IF tasks[t].arg \in {"online", "idle", "dnd", "offline"}
                         THEN tasks[t].arg ELSE "offline")

\* C20 witness: a member went from online to idle and one broadcast with idle
\* was made.
C20_Witness ==
    \E t \in Slots :
        /\ tasks[t].op = "handle_member_update" /\ tasks[t].pc = "done"
        /\ tasks[t].before = "online"
        /\ tasks[t].arg = "idle"
        /\ Len(tasks[t].acc) = 1
        /\ tasks[t].acc[1].status = "idle"

\* ---------------------------------------------------- presence ordering
\* ListenerManager.handle_member_update(before, after) as the event dispatcher
\* runs it: every event gets a task of its own, so the handler of a second
\* event starts while the handler of the first is suspended at
\* `role_color = await self.get_member_role_color_func(after)`.  seq is the
\* position of the event in the order the platform delivered the events.
HandleMemberUpdate(t) ==
    /\ CanStart(t)
    /\ \E g \in Range(guilds) : \E u \in members[g] :
       \E before \in RawStatuses, after \in RawStatuses :
         LET r == [IdleTask EXCEPT !.op = "handle_member_update", !.guild = g,
                                   !.uid = ToString(u), !.before = before,
                                   !.arg = after, !.seq = calls + 1]
         IN SetTask(t, IF StatusChanged(before, after)
                       THEN [r EXCEPT !.pc = "l_color"]
                       ELSE [r EXCEPT !.pc = "done", !.ret = "None"])
    /\ calls' = calls + 1
    /\ UNCHANGED <<members_config, handler, client_id, client_secret,
                   static_file_path, passworded, ignoreOfflineMembers,
                   password_cache, guilds, members, load, server_data,
                   expected>>

\* Presence-change handlers running as concurrent tasks.
NextOrder ==
    \/ \E t \in Slots : HandleMemberUpdate(t)
    \/ \E t \in Slots : ListenerBroadcast(t)

SpecOrder == InitPresence /\ [][NextOrder]_vars

\* C21: presence changes of one member are forwarded in delivery order: while
\* the handler of an earlier event of a member is still suspended on the colour
\* read, no handler of a later event of the same member has handed its
\* broadcast to the transport.
C21_DeliveryOrder ==
    \A s \in Slots, t \in Slots :
       (/\ tasks[s].op = "handle_member_update"
        /\ tasks[t].op = "handle_member_update"
        /\ tasks[s].guild = tasks[t].guild
        /\ tasks[s].uid = tasks[t].uid
        /\ tasks[s].seq < tasks[t].seq
        /\ tasks[s].pc = "l_color") =>
          ~(tasks[t].pc = "done" /\ tasks[t].acc # <<>>)

\* ------------------------------------------- messages, joins and removals
\* A skip test that lets direct messages through.
MessageSkippedBotsOnly(bot, guild) == bot

\* `if message.author.bot: return` and `if not message.guild: return`
MessageSkipped(bot, guild) == bot \/ guild = NoGuild

\* ListenerManager.handle_message(message) and dworld.on_message: the two
\* tests and `await self.server.broadcast_message(...)`, with no await before
\* the broadcast.  A direct message has no guild.
HandleMessage(t) ==
    /\ CanStart(t)
    /\ \A s \in Slots : Free(s)
    /\ \E bot \in BOOLEAN, g \in Range(guilds) \cup {NoGuild}, u \in UserIds,
          content \in {"", "hi"}, channel \in {"10", "11"} :
         LET r == [IdleTask EXCEPT !.op = "handle_message", !.pc = "done",
                                   !.ret = "None", !.bot = bot, !.guild = g,
                                   !.uid = ToString(u), !.arg = content,
                                   !.channel = channel]
         IN SetTask(t, IF MessageSkipped(bot, g) THEN r
                       ELSE [r EXCEPT !.acc =
                               <<[event |-> "message", server |-> ToString(g),
                                  uid |-> ToString(u), message |-> content,
                                  channel |-> channel]>>])
    /\ calls' = calls + 1
    /\ UNCHANGED <<members_config, handler, client_id, client_secret,
                   static_file_path, passworded, ignoreOfflineMembers,
                   password_cache, guilds, members, load, server_data,
                   expected>>

\* A removal record without the delete flag.
RemovalNotDeleted(g, uid) ==
    [event |-> "presence", server |-> ToString(g), uid |-> uid,
     status |-> "offline", delete |-> FALSE]

\* broadcast_presence(server=str(member.guild.id), uid=str(member.id),
\* status="offline", delete=True): no username, role_color or message.
Removal(g, uid) ==
    [event |-> "presence", server |-> ToString(g), uid |-> uid,
     status |-> "offline", delete |-> TRUE]

\* ListenerManager.handle_member_remove(member) and dworld.on_member_remove.
HandleMemberRemove(t) ==
    /\ CanStart(t)
    /\ \A s \in Slots : Free(s)
    /\ \E g \in Range(guilds), u \in UserIds, raw \in RawStatuses :
         SetTask(t, [IdleTask EXCEPT !.op = "handle_member_remove",
                                     !.pc = "done", !.ret = "None",
                                     !.guild = g, !.uid = ToString(u),
                                     !.arg = raw,
                                     !.acc = <<Removal(g, ToString(u))>>])
    /\ calls' = calls + 1
    /\ UNCHANGED <<members_config, handler, client_id, client_secret,
                   static_file_path, passworded, ignoreOfflineMembers,
                   password_cache, guilds, members, load, server_data,
                   expected>>

\* ListenerManager.handle_member_join(member) up to
\* `role_color = await self.get_member_role_color_func(member)`.
HandleMemberJoin(t) ==
    /\ CanStart(t)
    /\ \A s \in Slots : Free(s)
    /\ \E g \in Range(guilds) : \E u \in members[g] :
       \E raw \in RawStatuses, role \in TopRoles :
         SetTask(t, [IdleTask EXCEPT !.op = "handle_member_join", !.guild = g,
                                     !.uid = ToString(u), !.arg = raw,
                                     !.role = role, !.pc = "j_color"])
    /\ calls' = calls + 1
    /\ UNCHANGED <<members_config, handler, client_id, client_secret,
                   static_file_path, passworded, ignoreOfflineMembers,
                   password_cache, guilds, members, load, server_data,
                   expected>>

\* The colour read returns what is stored for the member, the colour is
\* resolved, the status is mapped and broadcast_presence is called with both.
MemberJoinBroadcast(t) ==
    /\ tasks[t].op = "handle_member_join" /\ tasks[t].pc = "j_color"
    /\ \E stored \in StoredColors :
         LET color == ResolveColor(stored, tasks[t].role)
         IN SetTask(t, [tasks[t] EXCEPT
                          !.pc = "done", !.ret = "None", !.stored = stored,
                          !.color = color,
                          !.acc = <<[role_color |-> color] @@
                                    Presence(tasks[t].guild, tasks[t].uid,
                                             StatusOf(tasks[t].arg))>>])
    /\ UNCHANGED <<members_config, handler, client_id, client_secret,
                   static_file_path, passworded, ignoreOfflineMembers,
                   password_cache, guilds, members, load, server_data,
                   expected, calls>>

\* Message, join and removal events, one handler at a time.
NextEvents ==
    \/ \E t \in Slots : HandleMessage(t)
    \/ \E t \in Slots : HandleMemberRemove(t)
    \/ \E t \in Slots : HandleMemberJoin(t)
    \/ \E t \in Slots : MemberJoinBroadcast(t)

SpecEvents == InitPresence /\ [][NextEvents]_vars

\* C22: a message-create event is broadcast exactly when its author is no bot
\* and it was posted in a guild; the broadcast goes to that guild and carries
\* the author id, the content and the channel id; a bot-authored or direct
\* message causes no broadcast.
C22_MessageForwarding ==
    \A t \in Slots :
       (tasks[t].op = "handle_message" /\ tasks[t].pc = "done") =>
          /\ (tasks[t].acc # <<>>) <=>
                (~tasks[t].bot /\ tasks[t].guild # NoGuild)
          /\ (tasks[t].bot \/ tasks[t].guild = NoGuild) => tasks[t].acc = <<>>
          /\ tasks[t].acc # <<>> =>
                /\ Len(tasks[t].acc) = 1
                /\ tasks[t].acc[1].event = "message"
                /\ tasks[t].acc[1].server = ToString(tasks[t].guild)
                /\ tasks[t].acc[1].uid = tasks[t].uid
                /\ tasks[t].acc[1].message = tasks[t].arg
                /\ tasks[t].acc[1].channel = tasks[t].channel

\* C22 witness: a member's message in a guild was forwarded with its content.
C22_Witness ==
    \E t \in Slots :
       /\ tasks[t].op = "handle_message" /\ tasks[t].pc = "done"
       /\ ~tasks[t].bot /\ tasks[t].guild # NoGuild
       /\ tasks[t].arg = "hi"
       /\ Len(tasks[t].acc) = 1 /\ tasks[t].acc[1].message = "hi"

\* C23: a member-remove event gives exactly one presence broadcast for the
\* member's guild, with status offline, the delete flag set and neither colour
\* nor message; a member-join event gives exactly one presence broadcast with
\* the member's canonical status and resolved colour.
C23_RemoveAndJoin ==
    \A t \in Slots :
       /\ (tasks[t].op = "handle_member_remove" /\ tasks[t].pc = "done") =>
             /\ Len(tasks[t].acc) = 1
             /\ DOMAIN tasks[t].acc[1] =
                   {"event", "server", "uid", "status", "delete"}
             /\ tasks[t].acc[1].event = "presence"
             /\ tasks[t].acc[1].server = ToString(tasks[t].guild)
             /\ tasks[t].acc[1].uid = tasks[t].uid
             /\ tasks[t].acc[1].status = "offline"
             /\ tasks[t].acc[1].delete = TRUE
       /\ (tasks[t].op = "handle_member_join" /\ tasks[t].pc = "done") =>
             /\ Len(tasks[t].acc) = 1
             /\ tasks[t].acc[1].event = "presence"
             /\ tasks[t].acc[1].server = ToString(tasks[t].guild)
             /\ tasks[t].acc[1].uid = tasks[t].uid
             /\ tasks[t].acc[1].status =
                   (IF tasks[t].arg \in {"online", "idle", "dnd", "offline"}
                    THEN tasks[t].arg ELSE "offline")
             /\ tasks[t].acc[1].role_color =
                   (IF ValidCustomColor(tasks[t].stored)
                    THEN tasks[t].stored.chars
                    ELSE IF tasks[t].role.present /\ tasks[t].role.value # 0
                    THEN RoleColorString(tasks[t].role.value)
                    ELSE White)

\* C23 witness: a member who was online left and the removal record went out.
C23_Witness ==
    \E t \in Slots :
       /\ tasks[t].op = "handle_member_remove" /\ tasks[t].pc = "done"
       /\ tasks[t].arg = "online"
       /\ Len(tasks[t].acc) = 1 /\ tasks[t].acc[1].delete

\* ------------------------------------------------- member customization
\* str.strip() on a string given as the sequence of its characters.
RECURSIVE Strip(_)
Strip(str) ==
    IF str = <<>> THEN str
    ELSE IF Head(str) = " " THEN Strip(Tail(str))
    ELSE IF str[Len(str)] = " " THEN Strip(SubSeq(str, 1, Len(str) - 1))
    ELSE str

\* The settings a validated form stores: the colour as submitted and
\* `(custom_message.data or "").strip()`.
FormEntry(role_color, custom_message) ==
    [role_color |-> role_color,
     custom_message |-> IF custom_message = None THEN <<>>
                        ELSE Strip(custom_message)]

\* members_config[key] = value on the handler's copy of the map.
MapPut(cfg, key, value) ==
    [k \in (DOMAIN cfg) \cup {key} |-> IF k = key THEN value ELSE cfg[k]]

\* dashboard_member_customization(user, guild) up to
\* `members_config = await self.config.guild(guild).members()`: the permission
\* checks.  A user who is no member of the guild has no guild permission.
StartCustomization(t) ==
    /\ CanStart(t)
    /\ \E g \in Range(guilds), u \in UserIds, is_owner \in BOOLEAN,
          manage_guild \in BOOLEAN :
         SetTask(t, [IdleTask EXCEPT
                        !.op = "dashboard_member_customization",
                        !.pc = "m_load", !.guild = g, !.uid = ToString(u),
                        !.owner = is_owner,
                        !.priv = is_owner \/ (u \in members[g] /\ manage_guild)])
    /\ calls' = calls + 1
    /\ UNCHANGED <<members_config, handler, client_id, client_secret,
                   static_file_path, passworded, ignoreOfflineMembers,
                   password_cache, guilds, members, load, server_data,
                   expected>>

\* The read returns a copy of the stored map (or raises: error 500), and the
\* form of the user's kind is handled: without a valid submission the page is
\* rendered; with one, the copy gets the entry of the selected member
\* (privileged form, a non-bot member of the guild) or of the user (regular
\* form), up to `await self.config.guild(guild).members.set(members_config)`.
CustomizationForm(t) ==
    /\ tasks[t].op = "dashboard_member_customization"
    /\ tasks[t].pc = "m_load"
    /\ \/ SetTask(t, [tasks[t] EXCEPT !.pc = "done", !.ret = "500"])
       \/ SetTask(t, [tasks[t] EXCEPT !.pc = "done", !.ret = "page",
                                      !.map = members_config[tasks[t].guild]])
       \/ \E role_color \in {"#111111", "#222222"},
             custom_message \in {None, <<" ">>, <<"h", " ">>},
             selected \in members[tasks[t].guild] \cup {0} :
            LET key == IF tasks[t].priv THEN ToString(selected)
                       ELSE tasks[t].uid
                entry == FormEntry(role_color, custom_message)
            IN /\ tasks[t].priv <=> selected # 0
               /\ SetTask(t, [tasks[t] EXCEPT
                                !.pc = "m_set", !.target = key,
                                !.entry = entry,
                                !.map = MapPut(members_config[tasks[t].guild],
                                               key, entry)])
    /\ UNCHANGED <<members_config, handler, client_id, client_secret,
                   static_file_path, passworded, ignoreOfflineMembers,
                   password_cache, guilds, members, load, server_data,
                   expected, calls>>

\* `await self.config.guild(guild).members.set(members_config)`: the whole map
\* is replaced by the handler's copy.  The regular form is done then; the
\* privileged form goes on to the broadcasts.
CustomizationSet(t) ==
    /\ tasks[t].op = "dashboard_member_customization"
    /\ tasks[t].pc = "m_set"
    /\ members_config' =
          [members_config EXCEPT ![tasks[t].guild] = tasks[t].map]
    /\ SetTask(t, [tasks[t] EXCEPT
                     !.wrote = TRUE,
                     !.pc = IF tasks[t].priv THEN "m_cast" ELSE "done",
                     !.ret = IF tasks[t].priv THEN "none" ELSE "page"])
    /\ UNCHANGED <<handler, client_id, client_secret, static_file_path,
                   passworded, ignoreOfflineMembers, password_cache, guilds,
                   members, load, server_data, expected, calls>>

\* The privileged form's pushes: broadcast_presence with
\* status=selected_member.status, the member's status as the platform holds
\* it, and the submitted colour; then broadcast_message with the stored
\* message and channel "123".
CustomizationBroadcast(t) ==
    /\ tasks[t].op = "dashboard_member_customization"
    /\ tasks[t].pc = "m_cast"
    /\ \E raw \in RawStatuses :
         SetTask(t, [tasks[t] EXCEPT
                        !.pc = "done", !.ret = "page", !.arg = raw,
                        !.acc = <<[role_color |-> tasks[t].entry.role_color] @@
                                  Presence(tasks[t].guild, tasks[t].target, raw),
                                  [event |-> "message",
                                   server |-> ToString(tasks[t].guild),
                                   uid |-> tasks[t].target,
                                   message |-> tasks[t].entry.custom_message,
                                   channel |-> "123"]>>])
    /\ UNCHANGED <<members_config, handler, client_id, client_secret,
                   static_file_path, passworded, ignoreOfflineMembers,
                   password_cache, guilds, members, load, server_data,
                   expected, calls>>

\* Customization requests of the dashboard, as concurrent tasks.
NextCustomization ==
    \/ \E t \in Slots : StartCustomization(t)
    \/ \E t \in Slots : CustomizationForm(t)
    \/ \E t \in Slots : CustomizationSet(t)
    \/ \E t \in Slots : CustomizationBroadcast(t)

SpecCustomization == InitPresence /\ [][NextCustomization]_vars

\* C24: customization updates are atomic read-modify-writes: after two
\* submissions for two different members of one guild have both completed, the
\* stored map holds the new entry of each.
C24_BothEntriesKept ==
    \A s \in Slots, t \in Slots :
       (/\ s # t
        /\ tasks[s].op = "dashboard_member_customization"
        /\ tasks[t].op = "dashboard_member_customization"
        /\ tasks[s].pc = "done" /\ tasks[t].pc = "done"
        /\ tasks[s].wrote /\ tasks[t].wrote
        /\ tasks[s].guild = tasks[t].guild
        /\ tasks[s].target # tasks[t].target) =>
          LET cfg == members_config[tasks[s].guild]
          IN /\ tasks[s].target \in DOMAIN cfg
             /\ cfg[tasks[s].target] = tasks[s].entry
             /\ tasks[t].target \in DOMAIN cfg
             /\ cfg[tasks[t].target] = tasks[t].entry

\* C26: every presence record handed to the transport carries one of the four
\* canonical statuses, on every push path, the push after a privileged
\* customization save included.
C26_PushesCanonical ==
    \A t \in Slots : \A i \in DOMAIN tasks[t].acc :
       tasks[t].acc[i].event = "presence" =>
          tasks[t].acc[i].status \in {"online", "idle", "dnd", "offline"}

\* C29: the write of a submission by a user without privilege changes only the
\* entry under that user's own id: every other key of the guild's map is in the
\* store after the write exactly as it was immediately before it, also while
\* other submissions are in progress.
C29_OwnEntryOnly ==
    [][\A t \in Slots :
          (/\ tasks[t].op = "dashboard_member_customization"
           /\ tasks[t].pc = "m_set"
           /\ ~tasks[t].priv
           /\ tasks'[t].pc = "done") =>
             LET before == members_config[tasks[t].guild]
                 after == members_config'[tasks[t].guild]
             IN \A k \in ((DOMAIN before) \cup (DOMAIN after)) \ {tasks[t].uid} :
                   /\ k \in DOMAIN before
                   /\ k \in DOMAIN after
                   /\ after[k] = before[k]]_vars

\* ------------------------------------------------ who writes what
\* dworld.status(ctx): the two credential reads, then the cached flag of
\* every served guild is read for the count of protected servers and the
\* message is sent.
StatusCommand(t) ==
    \/ /\ CanStart(t)
       /\ \A s \in Slots : tasks[s].op = "status" => tasks[s].pc = "done"
       /\ SetTask(t, [IdleTask EXCEPT !.op = "status", !.pc = "s_cid"])
       /\ calls' = calls + 1
       /\ UNCHANGED <<members_config, handler, client_id, client_secret,
                      static_file_path, passworded, ignoreOfflineMembers,
                      password_cache, guilds, members, load, server_data,
                      expected>>
    \/ /\ tasks[t].op = "status" /\ tasks[t].pc = "s_cid"
       /\ SetTask(t, [tasks[t] EXCEPT !.pc = "s_sec", !.cid = client_id])
       /\ UNCHANGED <<members_config, handler, client_id, client_secret,
                      static_file_path, passworded, ignoreOfflineMembers,
                      password_cache, guilds, members, load, server_data,
                      expected, calls>>
    \/ /\ tasks[t].op = "status" /\ tasks[t].pc = "s_sec"
       /\ SetTask(t, [tasks[t] EXCEPT
                        !.pc = "done", !.ret = "None", !.sec = client_secret,
                        !.acc = SelectSeq(guilds,
                                   LAMBDA g : CacheGet(password_cache, g))])
       /\ UNCHANGED <<members_config, handler, client_id, client_secret,
                      static_file_path, passworded, ignoreOfflineMembers,
                      password_cache, guilds, members, load, server_data,
                      expected, calls>>

\* dworld._get_client_id(discord_server_id): the argument is ignored;
\* `client_id = await self.config.client_id()` and the value is returned.
GetClientId(t) ==
    \/ /\ CanStart(t)
       /\ \A s \in Slots : tasks[s].op = "_get_client_id" => tasks[s].pc = "done"
       /\ SetTask(t, [IdleTask EXCEPT !.op = "_get_client_id", !.pc = "g_cid"])
       /\ calls' = calls + 1
       /\ UNCHANGED <<members_config, handler, client_id, client_secret,
                      static_file_path, passworded, ignoreOfflineMembers,
                      password_cache, guilds, members, load, server_data,
                      expected>>
    \/ /\ tasks[t].op = "_get_client_id" /\ tasks[t].pc = "g_cid"
       /\ SetTask(t, [tasks[t] EXCEPT !.pc = "done", !.ret = "client_id",
                                      !.cid = client_id])
       /\ UNCHANGED <<members_config, handler, client_id, client_secret,
                      static_file_path, passworded, ignoreOfflineMembers,
                      password_cache, guilds, members, load, server_data,
                      expected, calls>>

\* The cog right after construction, with both credentials configured and no
\* guild protected yet: the cache is empty and cog_load has not run.
InitFrame ==
    /\ client_id = "A"
    /\ client_secret = "S"
    /\ static_file_path = None
    /\ passworded = [g \in GuildIds |-> FALSE]
    /\ ignoreOfflineMembers = [g \in GuildIds |-> FALSE]
    /\ guilds = AllGuilds
    /\ password_cache = <<>>
    /\ members = [g \in GuildIds |-> {1, g} \cap UserIds]
    /\ tasks = [t \in Slots |-> IdleTask]
    /\ load = LoadIdle
    /\ server_data = NoSnapshot
    /\ expected = passworded
    /\ calls = 0
    /\ members_config = DefaultMembers
    /\ handler = IdleHandler

\* Start-up, the protection command, a credential command, the status
\* display, the guild snapshot, token validation and event forwarding of
\* the cog that holds the cache, one handler call at a time (what a step
\* writes does not depend on the calls suspended next to it).
NextCache ==
    \/ StartLoad
    \/ LoadStep
    \/ \E t \in Slots : (\A s \in Slots : Free(s)) /\ StartToggleCommand(t)
    \/ \E t \in Slots : ToggleReadClientId(t)
    \/ \E t \in Slots : ToggleReadClientSecret(t)
    \/ \E t \in Slots : ToggleReadState(t)
    \/ \E t \in Slots : ToggleWrite(t)
    \/ SetClientSecret
    \/ \E t \in Slots : (\A s \in Slots : Free(s)) /\ StatusCommand(t)
    \/ \E t \in Slots : ~Free(t) /\ StatusCommand(t)
    \/ GetServerData
    \/ \E t \in Slots : (\A s \in Slots : Free(s)) /\ StartValidate(t)
    \/ \E t \in Slots : ValidateStep(t)
    \/ \E t \in Slots : HandleMemberRemove(t)

SpecCache == InitFrame /\ [][NextCache]_vars

\* The pull callbacks, one call at a time, while the static path is being
\* configured.
NextPull ==
    \/ \E t \in Slots : (\A s \in Slots : Free(s)) /\ StartGetServerData(t)
    \/ \E t \in Slots : GetServerDataRead(t)
    \/ \E t \in Slots : (\A s \in Slots : Free(s)) /\ StartGetUserData(t)
    \/ \E t \in Slots : UserDataReadFlag(t)
    \/ \E t \in Slots : UserDataBuild(t)
    \/ \E t \in Slots : (\A s \in Slots : Free(s)) /\ GetClientId(t)
    \/ \E t \in Slots : ~Free(t) /\ GetClientId(t)
    \/ \E t \in Slots : (\A s \in Slots : Free(s)) /\ StartValidate(t)
    \/ \E t \in Slots : ValidateStep(t)
    \/ \E t \in Slots : (\A s \in Slots : Free(s)) /\ StartStaticRequest(t)
    \/ \E t \in Slots : StaticRequestReturn(t)
    \/ \E t \in Slots : (\A s \in Slots : Free(s)) /\ StartGetMemberRoleColor(t)
    \/ \E t \in Slots : GetMemberRoleColorReturn(t)
    \/ SetStaticPath

SpecPull == InitValidate /\ [][NextPull]_vars

\* C25: only cog_load and the protection command write the cache: a step that
\* changes a cache entry is a step of cog_load or the write of a toggle, and the
\* write of a toggle for a guild leaves the entry of every other guild as it
\* was; snapshot queries, the status display, credential commands, event
\* forwarding and token validation change no entry.
C25_CacheWriters ==
    [][/\ password_cache' # password_cache =>
             \/ load.pc = "loading" /\ load' # load
             \/ \E t \in Slots :
                   /\ tasks[t].op = "toggleprotection"
                   /\ tasks[t].pc = "t_set"
                   /\ tasks'[t].pc = "done"
       /\ \A t \in Slots :
             (/\ tasks[t].op = "toggleprotection"
              /\ tasks[t].pc = "t_set"
              /\ tasks'[t].pc = "done") =>
                \A g \in GuildIds \ {tasks[t].guild} :
                   /\ (g \in DOMAIN password_cache') <=>
                         (g \in DOMAIN password_cache)
                   /\ g \in DOMAIN password_cache =>
                         password_cache'[g] = password_cache[g]]_vars

\* C25 witness: after start-up a toggle has written its guild's entry, and the
\* entry of another guild still holds what cog_load cached.
C25_Witness ==
    \E t \in Slots :
       /\ tasks[t].op = "toggleprotection" /\ tasks[t].pc = "done"
       /\ tasks[t].wrote
       /\ load = LoadDone
       /\ DOMAIN password_cache = Range(guilds)
       /\ password_cache[tasks[t].guild] = tasks[t].data
       /\ \E h \in Range(guilds) \ {tasks[t].guild} :
             password_cache[h] = passworded[h] /\ password_cache[h] # tasks[t].data

\* C27: the pull callbacks are read-only: no step of getServerData,
\* getUserData, getClientId, validateUser, staticRequest or the colour
\* resolver changes the credentials, the static path, a guild's passworded or
\* ignoreOfflineMembers flag or the customization map, whatever the arguments
\* and the outcome; an invalid stored colour stays stored.
C27_PullsReadOnly ==
    [][(\/ \E t \in Slots :
              /\ tasks'[t] # tasks[t]
              /\ tasks'[t].op \in {"get_server_data", "get_user_data",
                                   "_get_client_id", "validate",
                                   "handle_static_request",
                                   "get_member_role_color"}
        \/ server_data' # server_data) =>
          UNCHANGED <<client_id, client_secret, static_file_path, passworded,
                      ignoreOfflineMembers, members_config>>]_vars

\* C27 witness: with a static path configured, a colour was resolved for a
\* member whose stored colour is an invalid string.
C27_Witness ==
    /\ static_file_path # None
    /\ \E t \in Slots :
          /\ tasks[t].op = "get_member_role_color" /\ tasks[t].pc = "done"
          /\ tasks[t].stored.kind = "str"
          /\ ~ValidCustomColor(tasks[t].stored)
          /\ members_config = DefaultMembers

\* ------------------------------------------- dashboard authorization
\* Requests to the configuration page alone.
NextDash ==
    \/ \E t \in Slots : StartDashboard(t)
    \/ \E t \in Slots : DashReadClientId(t)
    \/ \E t \in Slots : DashReadClientSecret(t)
    \/ \E t \in Slots : DashForms(t)
    \/ \E t \in Slots : DashSetPassworded(t)
    \/ \E t \in Slots : DashSetIgnoreOffline(t)
    \/ \E t \in Slots : DashSetClientId(t)
    \/ \E t \in Slots : DashSetClientSecret(t)
    \/ \E t \in Slots : DashSetStaticPath(t)

SpecDash == Init /\ [][NextDash]_vars

\* C28: a request to the configuration page by a user who is neither bot owner
\* nor has manage-guild is answered with error 403 at once and no step of it
\* changes any configuration; no step of a request by a user who is no bot
\* owner changes the client id, the client secret or the static path.
C28_DashboardAuthorized ==
    /\ [](\A t \in Slots :
            (tasks[t].op = "dashboard" /\ ~tasks[t].priv) =>
               /\ tasks[t].pc = "done"
               /\ tasks[t].msg = "403"
               /\ ~tasks[t].wrote)
    /\ [][\A t \in Slots :
            (tasks'[t].op = "dashboard" /\ tasks'[t] # tasks[t]) =>
               /\ ~tasks'[t].priv =>
                     UNCHANGED <<client_id, client_secret, static_file_path,
                                 passworded, ignoreOfflineMembers,
                                 members_config>>
               /\ ~tasks'[t].owner =>
                     UNCHANGED <<client_id, client_secret,
                                 static_file_path>>]_vars

\* C28 witness: a moderator who is no bot owner submitted the global form and
\* was refused.
C28_Witness ==
    \E t \in Slots :
       /\ tasks[t].op = "dashboard" /\ tasks[t].pc = "done"
       /\ tasks[t].priv /\ ~tasks[t].owner
       /\ tasks[t].msg = "permission_denied"

\* ------------------------------------------------------------ hot reload
\* HotReloadHandler.on_any_event(event), called on the observer's thread.  The
\* source lies in a package of the watched path: a blacklisted one, one
\* without info.json, or a cog; a move ends in the same package, in another
\* one, or outside the watched path, where
\* `Path(str(event.dest_path)).relative_to(self.path)` raises ValueError after
\* debounce was set and before the reload is scheduled.
OnAnyEvent ==
    /\ calls < MaxCalls
    /\ calls' = calls + 1
    /\ \E is_directory \in BOOLEAN,
          event_type \in {"moved", "deleted", "created", "modified", "opened"},
          src \in {".venv", "docs", "a", "b"},
          dest \in {"same", "a", "b", "outside"} :
         LET seen == [handler EXCEPT !.raised = "none"]
             armed == [seen EXCEPT !.debounce = TRUE,
                                   !.event_type = event_type]
             names == IF event_type = "moved" /\ dest \notin {"same", src}
                      THEN <<src, dest>> ELSE <<src>>
         IN handler' =
              IF is_directory \/ handler.debounce THEN seen
              ELSE IF event_type = "opened" THEN seen
              ELSE IF src \in {".venv", "venv", ".data"} THEN seen
              ELSE IF src = "docs" THEN seen
              ELSE IF event_type = "moved" /\ dest = "outside"
              THEN [armed EXCEPT !.raised = "ValueError"]
              ELSE [armed EXCEPT !.reload = "compile", !.cogs = names,
                                 !.started = handler.started + 1]
    /\ UNCHANGED <<members_config, client_id, client_secret, static_file_path,
                   passworded, ignoreOfflineMembers, password_cache, guilds,
                   members, tasks, load, server_data, expected>>

\* reload_cogs on the bot's loop, up to the end of compile_modified_files:
\* with compile_before_reload off, or every file compiling, the reload goes
\* on; a PyCompileError makes reload_cogs return; a failing config read ends
\* it with an exception.
ReloadCompile ==
    /\ handler.reload = "compile"
    /\ \E outcome \in {"ok", "not_compiled", "raised"} :
         handler' = [handler EXCEPT
                       !.reload = IF outcome = "ok" THEN "reload"
                                  ELSE "finished",
                       !.raised = IF outcome = "raised" THEN "Exception"
                                  ELSE "none"]
    /\ UNCHANGED <<members_config, client_id, client_secret, static_file_path,
                   passworded, ignoreOfflineMembers, password_cache, guilds,
                   members, tasks, load, server_data, expected, calls>>

\* `await core_logic._reload(pkg_names=cog_names)` and the notification: the
\* coroutine ends, with its result or with an exception.
ReloadCogs ==
    /\ handler.reload = "reload"
    /\ \E raised \in {"none", "Exception"} :
         handler' = [handler EXCEPT !.reload = "finished", !.raised = raised]
    /\ UNCHANGED <<members_config, client_id, client_secret, static_file_path,
                   passworded, ignoreOfflineMembers, password_cache, guilds,
                   members, tasks, load, server_data, expected, calls>>

\* HotReloadHandler._on_reload_done(event_type, fut), the future's done
\* callback: `self.cog.bot.loop.call_soon_threadsafe(_reset)`.
OnReloadDone ==
    /\ handler.reload = "finished"
    /\ handler' = [handler EXCEPT !.reload = "none", !.reset = TRUE]
    /\ UNCHANGED <<members_config, client_id, client_secret, static_file_path,
                   passworded, ignoreOfflineMembers, password_cache, guilds,
                   members, tasks, load, server_data, expected, calls>>

\* _reset() on the loop: `self.debounce = False`.
Reset ==
    /\ handler.reset
    /\ handler' = [handler EXCEPT !.reset = FALSE, !.debounce = FALSE]
    /\ UNCHANGED <<members_config, client_id, client_secret, static_file_path,
                   passworded, ignoreOfflineMembers, password_cache, guilds,
                   members, tasks, load, server_data, expected, calls>>

NextHotReload ==
    \/ OnAnyEvent
    \/ ReloadCompile
    \/ ReloadCogs
    \/ OnReloadDone
    \/ Reset

\* The loop runs every coroutine and callback that was handed to it.
SpecHotReload ==
    /\ InitPresence
    /\ [][NextHotReload]_vars
    /\ WF_vars(ReloadCompile)
    /\ WF_vars(ReloadCogs)
    /\ WF_vars(OnReloadDone)
    /\ WF_vars(Reset)

\* C30: the debounce flag is always cleared again: whenever an event has set
\* it, it is false again at some later moment, whatever the course of the
\* reload and also for a move whose destination lies outside the watched path.
C30_DebounceCleared == handler.debounce ~> ~handler.debounce

====
